---- MODULE Spec2Model ----
(***************************************************************************)
(* Model of the table-tennis tracker's replay engine: the totals           *)
(* aggregator and the three Elo replays of src/lib/elo.ts, the rating      *)
(* configuration of src/config/eloConfig.ts, the player statistics of the  *)
(* profile page and the leaderboard rows of LeaderboardPage.vue.           *)
(*                                                                         *)
(* Numbers.  The program computes in IEEE doubles.  The model computes in  *)
(* fixed point: a number x is the integer x * FP, and every product and    *)
(* quotient is rounded to the nearest multiple of 1/FP, symmetrically in   *)
(* the sign as IEEE rounding is.  FP is a multiple of every possible game  *)
(* count of a match (1..7), so gamesWon / totalGames is exact.             *)
(***************************************************************************)
EXTENDS Integers, Sequences, FiniteSets, Bags, TLC

VARIABLES
    env,            \* import.meta.env: the VITE_ELO_* settings read at module load
    matches,        \* the match array handed to the engine (MatchRow[])
    games,          \* the game array handed to the engine (GameRow[])
    seedPlayerIds,  \* the seed identifiers handed to the Elo functions
    pc,             \* position of the driver that calls the engine
    totalsByMatch,  \* result of buildMatchGameTotals
    states,         \* calculateEloRatings: Map<playerId, EloState>
    orderedMatches, \* calculateEloRatings: [...matches].sort(compareMatches)
    idx,            \* calculateEloRatings: position of the forEach over orderedMatches
    ratings,        \* calculateEloRatings: the returned Map<playerId, rating>
    entries,        \* calculateEloMatchStates: the returned trace
    playerId,       \* the target player of calculateEloDeltasForPlayer and of the statistics
    deltas,         \* calculateEloDeltasForPlayer: the returned Map<matchId, delta>
    stats,          \* the profile page's computed statistics for playerId
    rows,           \* the leaderboard rows
    dbMatches,      \* the store: persisted match rows (active and voided)
    dbGames,        \* the store: persisted game rows
    calls,          \* the replay invocations in progress, each with its own locals
    form,           \* the score-sheet form of the submit page or of the edit dialog
    auth,           \* the auth store and its requests in flight
    page            \* a page that loads data: its refs and its requests in flight

vars == <<env, matches, games, seedPlayerIds, pc, totalsByMatch, states, orderedMatches,
          idx, ratings, entries, playerId, deltas, stats, rows, dbMatches, dbGames,
          calls, form, auth, page>>

\* the variables of the replay engine, of its callers and of the store
engineVars == <<env, matches, games, seedPlayerIds, pc, totalsByMatch, states,
                orderedMatches, idx, ratings, entries, playerId, deltas, stats, rows,
                dbMatches, dbGames, calls>>

\* the variables of the pages and of the auth store
pageVars == <<form, auth, page>>

\* a page that is not mounted, a store that is not in use
Idle == [mounted |-> FALSE]

PagesIdle ==
    /\ form = Idle
    /\ auth = Idle
    /\ page = Idle

-----------------------------------------------------------------------------
(* Fixed-point arithmetic *)

FP == 8 * 3 * 5 * 7

Abs(n) == IF n < 0 THEN -n ELSE n

Sign(n) == IF n < 0 THEN -1 ELSE 1

\* n / d rounded to the nearest integer, halves away from zero (d > 0)
RoundDiv(n, d) == Sign(n) * ((2 * Abs(n) + d) \div (2 * d))

\* product of two fixed-point numbers
Mul(a, b) == RoundDiv(a * b, FP)

\* quotient of two fixed-point numbers
Div(a, b) == RoundDiv(a * FP, b)

Max(a, b) == IF a >= b THEN a ELSE b

RECURSIVE SeqSum(_)
SeqSum(s) == IF s = <<>> THEN 0 ELSE Head(s) + SeqSum(Tail(s))

SeqToSet(s) == {s[i] : i \in DOMAIN s}

Reverse(s) == [i \in DOMAIN s |-> s[Len(s) + 1 - i]]

\* Map.set(k, v) on a Map held as a function
\* the members of a set in ascending order
RECURSIVE SetToSeq(_)
SetToSeq(S) ==
    IF S = {} THEN <<>>
    ELSE LET least == CHOOSE x \in S : \A y \in S : x <= y
         IN  <<least>> \o SetToSeq(S \ {least})

MapSet(m, k, v) == [x \in (DOMAIN m) \cup {k} |-> IF x = k THEN v ELSE m[x]]

EmptyMap == <<>>

\* 10^(k/40) for k = 0..40, in fixed point
Pow10Table ==
    << 840, 890, 942, 998, 1057, 1120, 1187, 1257, 1331, 1410,
       1494, 1582, 1676, 1775, 1881, 1992, 2110, 2235, 2367, 2508,
       2656, 2814, 2980, 3157, 3344, 3542, 3752, 3974, 4210, 4459,
       4724, 5004, 5300, 5614, 5947, 6299, 6672, 7068, 7487, 7930, 8400 >>

RECURSIVE IntPow10(_)
IntPow10(q) == IF q <= 0 THEN 1 ELSE 10 * IntPow10(q - 1)

\* Math.pow(10, x) for a fixed-point x: 10^floor(x) times the interpolated
\* table value of the fractional part
Pow10(x) ==
    LET q    == x \div FP
        f    == x % FP
        step == FP \div 40
        k    == f \div step
        rem  == f % step
        frac == Pow10Table[k + 1]
                  + RoundDiv((Pow10Table[k + 2] - Pow10Table[k + 1]) * rem, step)
    IN  IF q >= 0 THEN frac * IntPow10(q) ELSE RoundDiv(frac, IntPow10(-q))

-----------------------------------------------------------------------------
(* src/config/eloConfig.ts *)

Unset == [kind |-> "unset", val |-> 0]

NotANumber == [kind |-> "text", val |-> 0]

Num(n) == [kind |-> "num", val |-> n]

\* a raw setting is absent/blank, a text Number() maps to NaN, or a finite number
readEnvNumber(raw, fallback) ==
    IF raw.kind = "unset" THEN fallback
    ELSE IF raw.kind = "num" THEN raw.val ELSE fallback

formatWeights ==
    [ bo1 |-> readEnvNumber(env.VITE_ELO_WEIGHT_BO1, FP \div 2),
      bo3 |-> readEnvNumber(env.VITE_ELO_WEIGHT_BO3, FP),
      bo5 |-> readEnvNumber(env.VITE_ELO_WEIGHT_BO5, (3 * FP) \div 2),
      bo7 |-> readEnvNumber(env.VITE_ELO_WEIGHT_BO7, 2 * FP) ]

eloConfig ==
    [ baseline          |-> readEnvNumber(env.VITE_ELO_BASELINE, 1000 * FP),
      floor             |-> readEnvNumber(env.VITE_ELO_FLOOR, 400 * FP),
      scale             |-> readEnvNumber(env.VITE_ELO_SCALE, 1000 * FP),
      kFactor           |-> readEnvNumber(env.VITE_ELO_K, 40 * FP),
      doublesMultiplier |-> readEnvNumber(env.VITE_ELO_DOUBLES_MULTIPLIER, FP),
      formatWeights     |-> formatWeights ]

-----------------------------------------------------------------------------
(* src/lib/elo.ts *)

\* faulty variant: no tie-break on the identifier
compareMatches_NoIdTieBreak(a, b) ==
    IF a.match_date # b.match_date
    THEN (IF a.match_date < b.match_date THEN -1 ELSE 1)
    ELSE IF a.created_at # b.created_at
    THEN (IF a.created_at < b.created_at THEN -1 ELSE 1)
    ELSE 0

compareMatches(a, b) ==
    IF a.match_date # b.match_date
    THEN (IF a.match_date < b.match_date THEN -1 ELSE 1)
    ELSE IF a.created_at # b.created_at
    THEN (IF a.created_at < b.created_at THEN -1 ELSE 1)
    ELSE IF a.id = b.id THEN 0
    ELSE IF a.id < b.id THEN -1 ELSE 1

\* Array.prototype.sort is stable: an element goes behind the elements it
\* does not come before
RECURSIVE InsertMatch(_, _)
InsertMatch(sorted, m) ==
    IF sorted = <<>> THEN <<m>>
    ELSE IF compareMatches(Head(sorted), m) > 0 THEN <<m>> \o sorted
    ELSE <<Head(sorted)>> \o InsertMatch(Tail(sorted), m)

\* [...matches].sort(compareMatches)
RECURSIVE SortMatches(_)
SortMatches(list) ==
    IF list = <<>> THEN <<>>
    ELSE InsertMatch(SortMatches(SubSeq(list, 1, Len(list) - 1)), list[Len(list)])

resolveFormatWeight(format) ==
    LET weight == eloConfig.formatWeights[format]
    IN  IF weight > 0 THEN weight ELSE FP

resolveScale == IF eloConfig.scale > 0 THEN eloConfig.scale ELSE 400 * FP

\* faulty variant: the configured K is not read
resolveK_AlwaysFallback == 24 * FP

resolveK == IF eloConfig.kFactor > 0 THEN eloConfig.kFactor ELSE 24 * FP

expectedScore(rating, opponentRating) ==
    LET scale == resolveScale
    IN  RoundDiv(FP * FP, FP + Pow10(Div(opponentRating - rating, scale)))

ZeroTotals ==
    [sideAWins |-> 0, sideBWins |-> 0, sideAPoints |-> 0, sideBPoints |-> 0, totalGames |-> 0]

\* faulty variant: a drawn game counts as a game played
TotalsCount_CountsDraws(current, game) ==
    LET pointed == [current EXCEPT !.sideAPoints = @ + game.side_a_score,
                                   !.sideBPoints = @ + game.side_b_score]
    IN  IF game.side_a_score > game.side_b_score
        THEN [pointed EXCEPT !.sideAWins = @ + 1, !.totalGames = @ + 1]
        ELSE IF game.side_b_score > game.side_a_score
        THEN [pointed EXCEPT !.sideBWins = @ + 1, !.totalGames = @ + 1]
        ELSE [pointed EXCEPT !.totalGames = @ + 1]

\* the additions of one iteration of games.forEach
TotalsCount(current, game) ==
    LET pointed == [current EXCEPT !.sideAPoints = @ + game.side_a_score,
                                   !.sideBPoints = @ + game.side_b_score]
    IN  IF game.side_a_score > game.side_b_score
        THEN [pointed EXCEPT !.sideAWins = @ + 1, !.totalGames = @ + 1]
        ELSE IF game.side_b_score > game.side_a_score
        THEN [pointed EXCEPT !.sideBWins = @ + 1, !.totalGames = @ + 1]
        ELSE pointed

\* one iteration of games.forEach
TotalsAddGame(matchMap, totals, game) ==
    IF game.match_id \notin matchMap THEN totals
    ELSE LET current == IF game.match_id \in DOMAIN totals
                        THEN totals[game.match_id] ELSE ZeroTotals
         IN  MapSet(totals, game.match_id, TotalsCount(current, game))

RECURSIVE TotalsFold(_, _, _)
TotalsFold(matchMap, totals, gameList) ==
    IF gameList = <<>> THEN totals
    ELSE TotalsFold(matchMap, TotalsAddGame(matchMap, totals, Head(gameList)), Tail(gameList))

\* faulty variant: every game is aggregated, whatever match it belongs to
buildMatchGameTotals_AnyMatch(matchList, gameList) ==
    TotalsFold({gameList[i].match_id : i \in DOMAIN gameList}, EmptyMap, gameList)

buildMatchGameTotals(matchList, gameList) ==
    TotalsFold({matchList[i].id : i \in DOMAIN matchList}, EmptyMap, gameList)

\* faulty variant: a new state starts with one match played
ensureState_StartsAtOne(st, id) ==
    IF id \in DOMAIN st THEN st
    ELSE MapSet(st, id, [rating |-> eloConfig.baseline, matchesPlayed |-> 1])

ensureState(st, id) ==
    IF id \in DOMAIN st THEN st
    ELSE MapSet(st, id, [rating |-> eloConfig.baseline, matchesPlayed |-> 0])

RECURSIVE EnsureAll(_, _)
EnsureAll(st, ids) ==
    IF ids = <<>> THEN st ELSE EnsureAll(ensureState(st, Head(ids)), Tail(ids))

\* the two early returns of a forEach body: no totals or no decisive game, or
\* an empty roster
IsSkipped(matchTotals, match) ==
    \/ match.id \notin DOMAIN matchTotals
    \/ matchTotals[match.id].totalGames <= 0
    \/ Len(match.team_a) = 0
    \/ Len(match.team_b) = 0

\* faulty variant: a side is rated as its first member
TeamRating_FirstMember(st, team) == st[team[1]].rating

TeamRating(st, team) ==
    RoundDiv(SeqSum([i \in DOMAIN team |-> st[team[i]].rating]), Len(team))

\* faulty variant: only side A's ratings move, side B's members keep theirs
RatingsStep_SideBKeepsRating(st, match, matchTotals) ==
    IF IsSkipped(matchTotals, match) THEN st
    ELSE
    LET totals == matchTotals[match.id]
        teamA == match.team_a
        teamB == match.team_b
        ensured == EnsureAll(EnsureAll(st, teamA), teamB)
        teamARating == TeamRating(ensured, teamA)
        teamBRating == TeamRating(ensured, teamB)
        scoreA == RoundDiv(totals.sideAWins * FP, totals.totalGames)
        scoreB == RoundDiv(totals.sideBWins * FP, totals.totalGames)
        expectedA == expectedScore(teamARating, teamBRating)
        expectedB == FP - expectedA
        formatWeight == resolveFormatWeight(match.match_format)
        doublesMultiplier ==
            IF match.match_type = "doubles" THEN eloConfig.doublesMultiplier ELSE FP
        teamAK == Mul(Mul(resolveK, formatWeight), doublesMultiplier)
        teamBK == Mul(Mul(resolveK, formatWeight), doublesMultiplier)
        deltaA == Mul(teamAK, scoreA - expectedA)
        deltaB == Mul(teamBK, scoreB - expectedB)
        afterA == [p \in DOMAIN ensured |->
                     IF p \in SeqToSet(teamA)
                     THEN [rating |-> Max(eloConfig.floor, ensured[p].rating + deltaA),
                           matchesPlayed |-> ensured[p].matchesPlayed + 1]
                     ELSE ensured[p]]
    IN  [p \in DOMAIN afterA |->
           IF p \in SeqToSet(teamB)
           THEN [rating |-> afterA[p].rating,
                 matchesPlayed |-> afterA[p].matchesPlayed + 1]
           ELSE afterA[p]]

\* the forEach body of calculateEloRatings
RatingsStep(st, match, matchTotals) ==
    IF IsSkipped(matchTotals, match) THEN st
    ELSE
    LET totals == matchTotals[match.id]
        teamA == match.team_a
        teamB == match.team_b
        ensured == EnsureAll(EnsureAll(st, teamA), teamB)
        teamARating == TeamRating(ensured, teamA)
        teamBRating == TeamRating(ensured, teamB)
        scoreA == RoundDiv(totals.sideAWins * FP, totals.totalGames)
        scoreB == RoundDiv(totals.sideBWins * FP, totals.totalGames)
        expectedA == expectedScore(teamARating, teamBRating)
        expectedB == FP - expectedA
        formatWeight == resolveFormatWeight(match.match_format)
        doublesMultiplier ==
            IF match.match_type = "doubles" THEN eloConfig.doublesMultiplier ELSE FP
        teamAK == Mul(Mul(resolveK, formatWeight), doublesMultiplier)
        teamBK == Mul(Mul(resolveK, formatWeight), doublesMultiplier)
        deltaA == Mul(teamAK, scoreA - expectedA)
        deltaB == Mul(teamBK, scoreB - expectedB)
        afterA == [p \in DOMAIN ensured |->
                     IF p \in SeqToSet(teamA)
                     THEN [rating |-> Max(eloConfig.floor, ensured[p].rating + deltaA),
                           matchesPlayed |-> ensured[p].matchesPlayed + 1]
                     ELSE ensured[p]]
    IN  [p \in DOMAIN afterA |->
           IF p \in SeqToSet(teamB)
           THEN [rating |-> Max(eloConfig.floor, afterA[p].rating + deltaB),
                 matchesPlayed |-> afterA[p].matchesPlayed + 1]
           ELSE afterA[p]]

RECURSIVE RatingsReplay(_, _, _)
RatingsReplay(st, ordered, matchTotals) ==
    IF ordered = <<>> THEN st
    ELSE RatingsReplay(RatingsStep(st, Head(ordered), matchTotals), Tail(ordered), matchTotals)

RatingsOf(st) == [p \in DOMAIN st |-> st[p].rating]

calculateEloRatings(matchList, matchTotals, seeds) ==
    RatingsOf(RatingsReplay(EnsureAll(EmptyMap, seeds),
                            SortMatches(matchList), matchTotals))

\* the forEach body of calculateEloMatchStates; run is [states, entries]
MatchStatesStep(run, match, matchTotals) ==
    IF IsSkipped(matchTotals, match) THEN run
    ELSE
    LET totals == matchTotals[match.id]
        teamA == match.team_a
        teamB == match.team_b
        members == SeqToSet(teamA) \cup SeqToSet(teamB)
        ensured == EnsureAll(EnsureAll(run.states, teamA), teamB)
        preRatings == [p \in members |-> ensured[p].rating]
        preMatches == [p \in members |-> ensured[p].matchesPlayed]
        teamARating == TeamRating(ensured, teamA)
        teamBRating == TeamRating(ensured, teamB)
        scoreA == RoundDiv(totals.sideAWins * FP, totals.totalGames)
        scoreB == RoundDiv(totals.sideBWins * FP, totals.totalGames)
        expectedA == expectedScore(teamARating, teamBRating)
        expectedB == FP - expectedA
        formatWeight == resolveFormatWeight(match.match_format)
        doublesMultiplier ==
            IF match.match_type = "doubles" THEN eloConfig.doublesMultiplier ELSE FP
        teamAK == Mul(Mul(resolveK, formatWeight), doublesMultiplier)
        teamBK == Mul(Mul(resolveK, formatWeight), doublesMultiplier)
        deltaA == Mul(teamAK, scoreA - expectedA)
        deltaB == Mul(teamBK, scoreB - expectedB)
        afterA == [p \in DOMAIN ensured |->
                     IF p \in SeqToSet(teamA)
                     THEN [rating |-> Max(eloConfig.floor, ensured[p].rating + deltaA),
                           matchesPlayed |-> ensured[p].matchesPlayed + 1]
                     ELSE ensured[p]]
        afterB == [p \in DOMAIN afterA |->
                     IF p \in SeqToSet(teamB)
                     THEN [rating |-> Max(eloConfig.floor, afterA[p].rating + deltaB),
                           matchesPlayed |-> afterA[p].matchesPlayed + 1]
                     ELSE afterA[p]]
        postRatings == [p \in members |-> afterB[p].rating]
    IN  [states  |-> afterB,
         entries |-> Append(run.entries,
                            [matchId     |-> match.id,
                             teamAIds    |-> teamA,
                             teamBIds    |-> teamB,
                             preRatings  |-> preRatings,
                             preMatches  |-> preMatches,
                             postRatings |-> postRatings])]

RECURSIVE MatchStatesReplay(_, _, _)
MatchStatesReplay(run, ordered, matchTotals) ==
    IF ordered = <<>> THEN run
    ELSE MatchStatesReplay(MatchStatesStep(run, Head(ordered), matchTotals),
                           Tail(ordered), matchTotals)

calculateEloMatchStates(matchList, matchTotals, seeds) ==
    MatchStatesReplay([states |-> EnsureAll(EmptyMap, seeds), entries |-> <<>>],
                      SortMatches(matchList), matchTotals).entries

\* the forEach body of calculateEloDeltasForPlayer; run is [states, deltas]
DeltasStep(run, match, matchTotals, target) ==
    IF IsSkipped(matchTotals, match) THEN run
    ELSE
    LET totals == matchTotals[match.id]
        teamA == match.team_a
        teamB == match.team_b
        ensured == EnsureAll(EnsureAll(run.states, teamA), teamB)
        teamARating == TeamRating(ensured, teamA)
        teamBRating == TeamRating(ensured, teamB)
        scoreA == RoundDiv(totals.sideAWins * FP, totals.totalGames)
        scoreB == RoundDiv(totals.sideBWins * FP, totals.totalGames)
        expectedA == expectedScore(teamARating, teamBRating)
        expectedB == FP - expectedA
        formatWeight == resolveFormatWeight(match.match_format)
        doublesMultiplier ==
            IF match.match_type = "doubles" THEN eloConfig.doublesMultiplier ELSE FP
        teamAK == Mul(Mul(resolveK, formatWeight), doublesMultiplier)
        teamBK == Mul(Mul(resolveK, formatWeight), doublesMultiplier)
        deltaA == Mul(teamAK, scoreA - expectedA)
        deltaB == Mul(teamBK, scoreB - expectedB)
        nextA == Max(eloConfig.floor, ensured[target].rating + deltaA)
        deltasA == IF target \in SeqToSet(teamA)
                   THEN MapSet(run.deltas, match.id, nextA - ensured[target].rating)
                   ELSE run.deltas
        afterA == [p \in DOMAIN ensured |->
                     IF p \in SeqToSet(teamA)
                     THEN [rating |-> Max(eloConfig.floor, ensured[p].rating + deltaA),
                           matchesPlayed |-> ensured[p].matchesPlayed + 1]
                     ELSE ensured[p]]
        nextB == Max(eloConfig.floor, afterA[target].rating + deltaB)
        deltasB == IF target \in SeqToSet(teamB)
                   THEN MapSet(deltasA, match.id, nextB - afterA[target].rating)
                   ELSE deltasA
        afterB == [p \in DOMAIN afterA |->
                     IF p \in SeqToSet(teamB)
                     THEN [rating |-> Max(eloConfig.floor, afterA[p].rating + deltaB),
                           matchesPlayed |-> afterA[p].matchesPlayed + 1]
                     ELSE afterA[p]]
    IN  [states |-> afterB, deltas |-> deltasB]

RECURSIVE DeltasReplay(_, _, _, _)
DeltasReplay(run, ordered, matchTotals, target) ==
    IF ordered = <<>> THEN run
    ELSE DeltasReplay(DeltasStep(run, Head(ordered), matchTotals, target),
                      Tail(ordered), matchTotals, target)

\* faulty variant: the matches are replayed in the order of the array
calculateEloDeltasForPlayer_Unsorted(matchList, matchTotals, target, seeds) ==
    LET seeded == EnsureAll(EmptyMap, seeds)
        withTarget == IF target # 0 THEN ensureState(seeded, target) ELSE seeded
    IN  DeltasReplay([states |-> withTarget, deltas |-> EmptyMap],
                     matchList, matchTotals, target).deltas

\* playerId = 0 stands for the empty string, which is not seeded
calculateEloDeltasForPlayer(matchList, matchTotals, target, seeds) ==
    LET seeded == EnsureAll(EmptyMap, seeds)
        withTarget == IF target # 0 THEN ensureState(seeded, target) ELSE seeded
    IN  DeltasReplay([states |-> withTarget, deltas |-> EmptyMap],
                     SortMatches(matchList), matchTotals, target).deltas

-----------------------------------------------------------------------------
(* The player profile page: the statistics computed for one target player *)

MIN_MATCHES_FOR_ELO_DISPLAY == 3

\* faulty variant: the creation timestamp is not compared
PlayerProfile_compareMatches_NoCreatedAt(a, b) ==
    IF a.match_date # b.match_date
    THEN (IF a.match_date < b.match_date THEN -1 ELSE 1)
    ELSE IF a.id = b.id THEN 0
    ELSE IF a.id < b.id THEN -1 ELSE 1

PlayerProfile_compareMatches(a, b) ==
    IF a.match_date # b.match_date
    THEN (IF a.match_date < b.match_date THEN -1 ELSE 1)
    ELSE IF a.created_at # b.created_at
    THEN (IF a.created_at < b.created_at THEN -1 ELSE 1)
    ELSE IF a.id = b.id THEN 0
    ELSE IF a.id < b.id THEN -1 ELSE 1

RECURSIVE PlayerProfile_InsertMatch(_, _)
PlayerProfile_InsertMatch(sorted, m) ==
    IF sorted = <<>> THEN <<m>>
    ELSE IF PlayerProfile_compareMatches(Head(sorted), m) > 0 THEN <<m>> \o sorted
    ELSE <<Head(sorted)>> \o PlayerProfile_InsertMatch(Tail(sorted), m)

\* [...targetMatches].sort(compareMatches)
RECURSIVE PlayerProfile_SortMatches(_)
PlayerProfile_SortMatches(list) ==
    IF list = <<>> THEN <<>>
    ELSE PlayerProfile_InsertMatch(PlayerProfile_SortMatches(SubSeq(list, 1, Len(list) - 1)),
                                   list[Len(list)])

resolvePlayerSide(match, id) ==
    IF id \in SeqToSet(match.team_a) THEN "A"
    ELSE IF id \in SeqToSet(match.team_b) THEN "B"
    ELSE "none"

\* the forEach over orderedTargetMatches: the result entry of each counted match
RECURSIVE StatsResults(_, _, _)
StatsResults(ordered, matchTotals, targetId) ==
    IF ordered = <<>> THEN <<>>
    ELSE
    LET match == Head(ordered)
        later == StatsResults(Tail(ordered), matchTotals, targetId)
        side  == resolvePlayerSide(match, targetId)
    IN  IF match.id \notin DOMAIN matchTotals THEN later
        ELSE IF matchTotals[match.id].totalGames <= 0 THEN later
        ELSE IF side = "none" THEN later
        ELSE
        LET totals      == matchTotals[match.id]
            isSideA     == side = "A"
            matchWins   == IF isSideA THEN totals.sideAWins ELSE totals.sideBWins
            matchLosses == IF isSideA THEN totals.sideBWins ELSE totals.sideAWins
            outcome     == IF matchWins >= matchLosses THEN "W" ELSE "L"
        IN  <<[match |-> match, outcome |-> outcome,
               wins |-> matchWins, losses |-> matchLosses]>> \o later

\* faulty variant: the run counter is not reset when the outcome type changes
RECURSIVE StreakScan_NeverResets(_, _)
StreakScan_NeverResets(results, run) ==
    IF results = <<>> THEN run
    ELSE
    LET outcome == Head(results).outcome
        count   == run.runningCount + 1
    IN  StreakScan_NeverResets(Tail(results),
                   [runningType       |-> outcome,
                    runningCount      |-> count,
                    longestWinStreak  |-> IF outcome = "W"
                                          THEN Max(run.longestWinStreak, count)
                                          ELSE run.longestWinStreak,
                    longestLossStreak |-> IF outcome = "L"
                                          THEN Max(run.longestLossStreak, count)
                                          ELSE run.longestLossStreak])

\* the streak scan: results.forEach with the running type and count
RECURSIVE StreakScan(_, _)
StreakScan(results, run) ==
    IF results = <<>> THEN run
    ELSE
    LET outcome == Head(results).outcome
        count   == IF run.runningType = outcome THEN run.runningCount + 1 ELSE 1
    IN  StreakScan(Tail(results),
                   [runningType       |-> outcome,
                    runningCount      |-> count,
                    longestWinStreak  |-> IF outcome = "W"
                                          THEN Max(run.longestWinStreak, count)
                                          ELSE run.longestWinStreak,
                    longestLossStreak |-> IF outcome = "L"
                                          THEN Max(run.longestLossStreak, count)
                                          ELSE run.longestLossStreak])

\* the Elo series: seed at the baseline, add the delta of each match that has one
\* faulty variant: each point is the baseline plus the delta of its own match
RECURSIVE EloSeries_NoRunningRating(_, _, _)
EloSeries_NoRunningRating(ordered, deltaMap, rating) ==
    IF ordered = <<>> THEN <<>>
    ELSE LET match == Head(ordered)
         IN  IF match.id \notin DOMAIN deltaMap
             THEN EloSeries_NoRunningRating(Tail(ordered), deltaMap, rating)
             ELSE <<[matchId |-> match.id, date |-> match.match_date,
                     value |-> rating + deltaMap[match.id]]>>
                  \o EloSeries_NoRunningRating(Tail(ordered), deltaMap, rating)

RECURSIVE EloSeries(_, _, _)
EloSeries(ordered, deltaMap, rating) ==
    IF ordered = <<>> THEN <<>>
    ELSE LET match == Head(ordered)
         IN  IF match.id \notin DOMAIN deltaMap
             THEN EloSeries(Tail(ordered), deltaMap, rating)
             ELSE <<[matchId |-> match.id, date |-> match.match_date,
                     value |-> rating + deltaMap[match.id]]>>
                  \o EloSeries(Tail(ordered), deltaMap, rating + deltaMap[match.id])

\* Number.NaN, the value the pages use for a statistic that has no value
NumberNaN == [kind |-> "nan", val |-> 0]

\* wins / matchesPlayed of the profile statistics and of an opponent summary
PlayerProfile_winPct(matchesPlayed, wins) ==
    IF matchesPlayed # 0 THEN Num(RoundDiv(wins * FP, matchesPlayed)) ELSE Num(0)

\* the averages of the profile statistics: total / count, or NaN
PlayerProfile_average(total, count) ==
    IF count # 0 THEN Num(RoundDiv(total * FP, count)) ELSE NumberNaN

\* the position of each player's label in alphabetical order: the labels of
\* players 1..4 are "Dee", "Zed", "Amy", "Bob"
PlayerLabelRank == <<3, 4, 1, 2>>

\* labels compared as strings: the label of a team lists its members' labels
LabelOf(memberIds) == [k \in DOMAIN memberIds |-> PlayerLabelRank[memberIds[k]]]

LabelLess(a, b) ==
    \/ a # <<>> /\ b # <<>> /\ a[1] < b[1]
    \/ a # <<>> /\ b # <<>> /\ a[1] = b[1] /\ Len(a) < Len(b)
    \/ /\ Len(a) = Len(b)
       /\ Len(a) > 1
       /\ a[1] = b[1]
       /\ a[2] < b[2]

resolveOpponentTeamIds(match, id) ==
    LET side == resolvePlayerSide(match, id)
    IN  IF side = "A" THEN match.team_b
        ELSE IF side = "B" THEN match.team_a
        ELSE <<>>

\* ids.slice().sort(): the key of an opponent or of an opposing team
buildTeamKey(ids) == SetToSeq(SeqToSet(ids))

\* opponentMap after the results: one record per opponent key, in the order
\* in which the keys were first met
RECURSIVE OpponentRecords(_, _, _)
OpponentRecords(results, targetId, records) ==
    IF results = <<>> THEN records
    ELSE
    LET entry == Head(results)
        opponentIds == resolveOpponentTeamIds(entry.match, targetId)
        opponentKey == buildTeamKey(opponentIds)
        known == { k \in DOMAIN records : records[k].id = opponentKey }
        record == IF known = {}
                  THEN [id |-> opponentKey, label |-> LabelOf(opponentIds),
                        wins |-> 0, losses |-> 0, matches |-> 0]
                  ELSE records[CHOOSE k \in known : TRUE]
        counted == [record EXCEPT !.matches = @ + 1,
                                  !.wins = IF entry.outcome = "W" THEN @ + 1 ELSE @,
                                  !.losses = IF entry.outcome = "W" THEN @ ELSE @ + 1]
        next == IF known = {} THEN Append(records, counted)
                ELSE [k \in DOMAIN records |-> IF k \in known THEN counted ELSE records[k]]
    IN  OpponentRecords(Tail(results), targetId, next)

opponentSummaries(records) ==
    [k \in DOMAIN records |->
       [id |-> records[k].id, label |-> records[k].label,
        wins |-> records[k].wins, losses |-> records[k].losses,
        matches |-> records[k].matches,
        winPct |-> PlayerProfile_winPct(records[k].matches, records[k].wins).val]]

MIN_MATCHES_FOR_MATCHUP == 3

NoOpponent == <<>>

matchupOpponents(summaries) ==
    SelectSeq(summaries, LAMBDA summary : summary.matches >= MIN_MATCHES_FOR_MATCHUP)

\* the reduce that picks the best opponent; best is <<>> or <<summary>>
RECURSIVE bestOpponent(_, _)
bestOpponent(pool, best) ==
    IF pool = <<>> THEN best
    ELSE
    LET current == Head(pool)
        picked ==
          IF best = NoOpponent THEN <<current>>
          ELSE IF current.winPct > best[1].winPct THEN <<current>>
          ELSE IF current.winPct = best[1].winPct /\ current.matches > best[1].matches
          THEN <<current>>
          ELSE IF /\ current.winPct = best[1].winPct
                  /\ current.matches = best[1].matches
                  /\ LabelLess(current.label, best[1].label)
          THEN <<current>>
          ELSE best
    IN  bestOpponent(Tail(pool), picked)

\* the reduce that picks the worst opponent
RECURSIVE worstOpponent(_, _)
worstOpponent(pool, worst) ==
    IF pool = <<>> THEN worst
    ELSE
    LET current == Head(pool)
        picked ==
          IF worst = NoOpponent THEN <<current>>
          ELSE IF current.winPct < worst[1].winPct THEN <<current>>
          ELSE IF current.winPct = worst[1].winPct /\ current.matches > worst[1].matches
          THEN <<current>>
          ELSE IF /\ current.winPct = worst[1].winPct
                  /\ current.matches = worst[1].matches
                  /\ LabelLess(current.label, worst[1].label)
          THEN <<current>>
          ELSE worst
    IN  worstOpponent(Tail(pool), picked)

\* the pool of the worst opponent: the eligible opponents but the best one
worstOpponentPool(eligible, best) ==
    IF best = NoOpponent THEN eligible
    ELSE SelectSeq(eligible, LAMBDA summary : summary.id # best[1].id)

\* gamesByMatchId.get(match.id)[0]: the game of the match with the lowest
\* game number, <<>> when the match has no game
FirstGameOf(gameList, id) ==
    LET own == { k \in DOMAIN gameList : gameList[k].match_id = id }
    IN  IF own = {} THEN <<>>
        ELSE <<gameList[CHOOSE k \in own :
                           \A other \in own :
                              \/ gameList[k].game_number < gameList[other].game_number
                              \/ /\ gameList[k].game_number = gameList[other].game_number
                                 /\ k <= other]>>

\* whether the target won the first game of the match of a result entry
FirstGameWon(gameList, entry, targetId) ==
    LET firstGame == FirstGameOf(gameList, entry.match.id)[1]
    IN  IF resolvePlayerSide(entry.match, targetId) = "A"
        THEN firstGame.side_a_score > firstGame.side_b_score
        ELSE firstGame.side_b_score > firstGame.side_a_score

\* faulty variant: a win counts as a comeback whatever the first game
IsComebackWin_AnyWin(gameList, entry, targetId) ==
    /\ FirstGameOf(gameList, entry.match.id) # <<>>
    /\ entry.outcome = "W"

IsComebackWin(gameList, entry, targetId) ==
    /\ FirstGameOf(gameList, entry.match.id) # <<>>
    /\ entry.outcome = "W"
    /\ ~FirstGameWon(gameList, entry, targetId)

IsBlownLead(gameList, entry, targetId) ==
    /\ FirstGameOf(gameList, entry.match.id) # <<>>
    /\ entry.outcome = "L"
    /\ FirstGameWon(gameList, entry, targetId)

PlayerStats(matchList, gameList, targetId) ==
    LET matchTotals == buildMatchGameTotals(matchList, gameList)
        IsTargetMatch(match) == resolvePlayerSide(match, targetId) # "none"
        targetMatches == SelectSeq(matchList, IsTargetMatch)
        orderedTargetMatches == PlayerProfile_SortMatches(targetMatches)
        results == StatsResults(orderedTargetMatches, matchTotals, targetId)
        IsWin(entry) == entry.outcome = "W"
        IsLoss(entry) == entry.outcome = "L"
        matchesPlayed == Len(results)
        wins == Len(SelectSeq(results, IsWin))
        losses == Len(SelectSeq(results, IsLoss))
        scan == StreakScan(results, [runningType |-> "none", runningCount |-> 0,
                                     longestWinStreak |-> 0, longestLossStreak |-> 0])
        eligible == matchupOpponents(opponentSummaries(
                        OpponentRecords(results, targetId, <<>>)))
        best == bestOpponent(eligible, NoOpponent)
        IsStraight(entry) == entry.outcome = "W" /\ entry.losses = 0
        IsComeback(entry) == IsComebackWin(gameList, entry, targetId)
        IsBlown(entry) == IsBlownLead(gameList, entry, targetId)
        hasElo == matchesPlayed >= MIN_MATCHES_FOR_ELO_DISPLAY
        deltaMap == IF hasElo
                    THEN calculateEloDeltasForPlayer(matchList, matchTotals, targetId, <<>>)
                    ELSE EmptyMap
        eloSeries == IF hasElo
                     THEN EloSeries(PlayerProfile_SortMatches(matchList),
                                    deltaMap, eloConfig.baseline)
                     ELSE <<>>
    IN  [ matchesPlayed      |-> matchesPlayed,
          wins               |-> wins,
          losses             |-> losses,
          results            |-> [i \in DOMAIN results |->
                                    [matchId |-> results[i].match.id,
                                     outcome |-> results[i].outcome]],
          currentStreakType  |-> scan.runningType,
          currentStreakCount |-> scan.runningCount,
          longestWinStreak   |-> scan.longestWinStreak,
          longestLossStreak  |-> scan.longestLossStreak,
          straightGameWins   |-> Len(SelectSeq(results, IsStraight)),
          comebackWins       |-> Len(SelectSeq(results, IsComeback)),
          blownLeads         |-> Len(SelectSeq(results, IsBlown)),
          bestOpponent       |-> best,
          worstOpponent      |-> worstOpponent(worstOpponentPool(eligible, best),
                                               NoOpponent),
          eloDeltas          |-> deltaMap,
          eloSeries          |-> eloSeries ]

-----------------------------------------------------------------------------
(* src/pages/LeaderboardPage.vue.  The page is written against the singles   *)
(* row shape (player1_id, player2_id; p1Wins, p2Wins): player 1 is side A's  *)
(* first member and player 2 side B's.                                       *)

NullElo == <<>>

NewLeaderRow ==
    [elo |-> NullElo, matchesPlayed |-> 0, wins |-> 0, losses |-> 0,
     gamesWon |-> 0, gamesLost |-> 0, pointsFor |-> 0]

\* one iteration of the second matches.forEach
LeaderboardAddMatch(board, match, matchTotals) ==
    IF match.id \notin DOMAIN matchTotals THEN board
    ELSE
    LET totals == matchTotals[match.id]
        p1 == match.team_a[1]
        p2 == match.team_b[1]
        aWon == totals.sideAWins > totals.sideBWins
        bWon == totals.sideBWins > totals.sideAWins
    IN  [p \in DOMAIN board |->
           IF p = p1
           THEN [board[p] EXCEPT !.matchesPlayed = @ + 1,
                                 !.gamesWon = @ + totals.sideAWins,
                                 !.gamesLost = @ + totals.sideBWins,
                                 !.pointsFor = @ + totals.sideAPoints,
                                 !.wins = IF aWon THEN @ + 1 ELSE @,
                                 !.losses = IF bWon THEN @ + 1 ELSE @]
           ELSE IF p = p2
           THEN [board[p] EXCEPT !.matchesPlayed = @ + 1,
                                 !.gamesWon = @ + totals.sideBWins,
                                 !.gamesLost = @ + totals.sideAWins,
                                 !.pointsFor = @ + totals.sideBPoints,
                                 !.wins = IF bWon THEN @ + 1 ELSE @,
                                 !.losses = IF aWon THEN @ + 1 ELSE @]
           ELSE board[p]]

RECURSIVE LeaderboardFold(_, _, _)
LeaderboardFold(board, matchList, matchTotals) ==
    IF matchList = <<>> THEN board
    ELSE LeaderboardFold(LeaderboardAddMatch(board, Head(matchList), matchTotals),
                         Tail(matchList), matchTotals)

buildLeaderboardRows(profiles, matchList, gameList) ==
    LET known == SeqToSet(profiles)
                   \cup {matchList[i].team_a[1] : i \in DOMAIN matchList}
                   \cup {matchList[i].team_b[1] : i \in DOMAIN matchList}
        statsByPlayer == [p \in known |-> NewLeaderRow]
        matchGameTotals == buildMatchGameTotals(matchList, gameList)
        counted == LeaderboardFold(statsByPlayer, matchList, matchGameTotals)
        keys == profiles \o SetToSeq(known \ SeqToSet(profiles))
        eloByPlayer == calculateEloRatings(matchList, matchGameTotals, keys)
    IN  [p \in known |->
           [counted[p] EXCEPT !.elo = IF counted[p].matchesPlayed >= 3
                                      THEN (IF p \in DOMAIN eloByPlayer
                                            THEN <<eloByPlayer[p]>> ELSE NullElo)
                                      ELSE NullElo]]

-----------------------------------------------------------------------------
(* Inputs *)

MaxDate == 2

AllPlayers == <<1, 2, 3, 4>>

\* the players whose deltas and statistics are asked for: player 1 plays in
\* every fixture, player 2 in two of them
Targets == {1, 2}

\* who plays whom: the match type, format and rosters a match identifier stands for
Fixtures ==
    << [match_type |-> "singles", match_format |-> "bo3", team_a |-> <<1>>, team_b |-> <<2>>],
       [match_type |-> "singles", match_format |-> "bo5", team_a |-> <<3>>, team_b |-> <<1>>],
       [match_type |-> "doubles", match_format |-> "bo1", team_a |-> <<2, 4>>,
        team_b |-> <<1, 3>>] >>

MatchIds == DOMAIN Fixtures

\* the identifier of a match that is in no match array (voided, or filtered out)
StrayId == Len(Fixtures) + 1

\* <<match_date, created_at>>: any day at the first timestamp, and the first
\* day at a second timestamp
Stamps == {<<d, 1>> : d \in 1..MaxDate} \cup {<<1, 2>>}

MatchRowOf(id, stamp) ==
    [id |-> id, match_type |-> Fixtures[id].match_type,
     match_format |-> Fixtures[id].match_format,
     match_date |-> stamp[1], created_at |-> stamp[2],
     team_a |-> Fixtures[id].team_a, team_b |-> Fixtures[id].team_b]

\* the score sheets <<side A, side B>> per game a fixture can have.  The bo3:
\* no game yet, side A wins 2-0, one game each, a single drawn game.  The bo5:
\* side A wins 3-1 after losing the first game, with a drawn game in between;
\* side B wins 3-1 after losing the first game.  The bo1:
\* no game yet, side A wins, side B wins.
Sheets ==
    << { <<>>,
         << <<11, 5>>, <<11, 5>> >>,
         << <<11, 5>>, <<5, 11>> >>,
         << <<7, 7>> >> },
       { << <<5, 11>>, <<7, 7>>, <<11, 5>>, <<11, 5>>, <<11, 5>> >>,
         << <<11, 5>>, <<5, 11>>, <<5, 11>>, <<5, 11>> >> },
       { <<>>,
         << <<11, 5>> >>,
         << <<5, 11>> >> } >>

GameRowsOf(id, sheet) ==
    [k \in DOMAIN sheet |->
       [match_id |-> id, game_number |-> k,
        side_a_score |-> sheet[k][1], side_b_score |-> sheet[k][2]]]

\* the match arrays: any matches with distinct identifiers, in ascending order
\* of the identifier
RECURSIVE MatchArraysUpTo(_)
MatchArraysUpTo(id) ==
    IF id = 0 THEN {<<>>}
    ELSE LET shorter == MatchArraysUpTo(id - 1)
         IN  shorter \cup { Append(m, MatchRowOf(id, stamp)) :
                              m \in shorter, stamp \in Stamps }

MatchArrays == MatchArraysUpTo(Len(Fixtures))

RECURSIVE GameArraysFor(_)
GameArraysFor(m) ==
    IF m = <<>> THEN {<<>>}
    ELSE { g \o GameRowsOf(m[Len(m)].id, sheet) :
             g \in GameArraysFor(SubSeq(m, 1, Len(m) - 1)),
             sheet \in Sheets[m[Len(m)].id] }

StrayGames == GameRowsOf(StrayId, << <<11, 5>>, <<11, 5>> >>)

\* the settings under which the program is started: nothing set; or a floor
\* above the default baseline, a K of 0 and a scale that is not a number
EnvUnset ==
    [ VITE_ELO_BASELINE |-> Unset, VITE_ELO_FLOOR |-> Unset, VITE_ELO_SCALE |-> Unset,
      VITE_ELO_K |-> Unset, VITE_ELO_DOUBLES_MULTIPLIER |-> Unset,
      VITE_ELO_WEIGHT_BO1 |-> Unset, VITE_ELO_WEIGHT_BO3 |-> Unset,
      VITE_ELO_WEIGHT_BO5 |-> Unset, VITE_ELO_WEIGHT_BO7 |-> Unset ]

EnvFloorAboveBaseline ==
    [EnvUnset EXCEPT !.VITE_ELO_FLOOR = Num(1200 * FP), !.VITE_ELO_K = Num(0),
                     !.VITE_ELO_SCALE = NotANumber]

\* a floor just under the default baseline: a first lost match reaches it
EnvFloorNearBaseline == [EnvUnset EXCEPT !.VITE_ELO_FLOOR = Num(990 * FP)]

Envs == {EnvUnset, EnvFloorAboveBaseline, EnvFloorNearBaseline}

\* the settings a run is started under and whether its input is shuffled
Runs ==
    { [env |-> EnvUnset, shuffled |-> FALSE],
      [env |-> EnvUnset, shuffled |-> TRUE],
      [env |-> EnvFloorNearBaseline, shuffled |-> FALSE],
      [env |-> EnvFloorAboveBaseline, shuffled |-> TRUE] }

-----------------------------------------------------------------------------
(* The driver: one call of each engine function on the same input *)

\* the input is handed over as it is stored, or shuffled: both arrays reversed,
\* with the games of a match that is not in the match array among the games,
\* and with the whole roster as seeds
Init ==
    /\ \E stored \in MatchArrays, run \in Runs :
         /\ env = run.env
         /\ matches = IF run.shuffled THEN Reverse(stored) ELSE stored
         /\ games \in { IF run.shuffled THEN Reverse(g \o StrayGames) ELSE g :
                          g \in GameArraysFor(stored) }
         /\ seedPlayerIds = IF run.shuffled THEN AllPlayers ELSE <<>>
    /\ pc = "totals"
    /\ totalsByMatch = EmptyMap
    /\ states = EmptyMap
    /\ orderedMatches = <<>>
    /\ idx = 0
    /\ ratings = EmptyMap
    /\ entries = <<>>
    /\ rows = EmptyMap
    /\ playerId = 0
    /\ deltas = EmptyMap
    /\ stats = EmptyMap
    /\ dbMatches = {}
    /\ dbGames = {}
    /\ calls = <<>>
    /\ PagesIdle

BuildTotals ==
    /\ pc = "totals"
    /\ totalsByMatch' = buildMatchGameTotals(matches, games)
    /\ pc' = "seed"
    /\ UNCHANGED <<env, matches, games, seedPlayerIds, states, orderedMatches, idx, ratings,
                   entries, playerId, deltas, stats, rows, dbMatches, dbGames,
                   calls, pageVars>>

\* faulty variant: the seeds are not given a rating state
SeedRatings_IgnoresSeeds ==
    /\ pc = "seed"
    /\ states' = EmptyMap
    /\ orderedMatches' = SortMatches(matches)
    /\ idx' = 1
    /\ pc' = "replay"
    /\ UNCHANGED <<env, matches, games, seedPlayerIds, totalsByMatch, ratings, entries,
                   playerId, deltas, stats, rows, dbMatches, dbGames,
                   calls, pageVars>>

\* faulty variant: the replay starts from the rating states of the previous replay
SeedRatings_KeepsStates ==
    /\ pc = "seed"
    /\ states' = EnsureAll(states, seedPlayerIds)
    /\ orderedMatches' = SortMatches(matches)
    /\ idx' = 1
    /\ pc' = "replay"
    /\ UNCHANGED <<env, matches, games, seedPlayerIds, totalsByMatch, ratings, entries,
                   playerId, deltas, stats, rows, dbMatches, dbGames,
                   calls, pageVars>>

\* calculateEloRatings up to the start of the forEach over orderedMatches
SeedRatings ==
    /\ pc = "seed"
    /\ states' = EnsureAll(EmptyMap, seedPlayerIds)
    /\ orderedMatches' = SortMatches(matches)
    /\ idx' = 1
    /\ pc' = "replay"
    /\ UNCHANGED <<env, matches, games, seedPlayerIds, totalsByMatch, ratings, entries,
                   playerId, deltas, stats, rows, dbMatches, dbGames,
                   calls, pageVars>>

\* faulty variant: the rating states of the rosters are created before the early returns
ProcessMatch_EnsuresRostersFirst ==
    /\ pc = "replay"
    /\ idx <= Len(orderedMatches)
    /\ states' = RatingsStep(EnsureAll(EnsureAll(states, orderedMatches[idx].team_a),
                                       orderedMatches[idx].team_b),
                             orderedMatches[idx], totalsByMatch)
    /\ idx' = idx + 1
    /\ UNCHANGED <<env, matches, games, seedPlayerIds, pc, totalsByMatch, orderedMatches,
                   ratings, entries, playerId, deltas, stats, rows, dbMatches, dbGames,
                   calls, pageVars>>

\* one iteration of the forEach over orderedMatches
ProcessMatch ==
    /\ pc = "replay"
    /\ idx <= Len(orderedMatches)
    /\ states' = RatingsStep(states, orderedMatches[idx], totalsByMatch)
    /\ idx' = idx + 1
    /\ UNCHANGED <<env, matches, games, seedPlayerIds, pc, totalsByMatch, orderedMatches,
                   ratings, entries, playerId, deltas, stats, rows, dbMatches, dbGames,
                   calls, pageVars>>

\* the copy of the states into the returned rating map
FinishRatings ==
    /\ pc = "replay"
    /\ idx > Len(orderedMatches)
    /\ ratings' = RatingsOf(states)
    /\ pc' = "trace"
    /\ UNCHANGED <<env, matches, games, seedPlayerIds, totalsByMatch, states, orderedMatches,
                   idx, entries, playerId, deltas, stats, rows, dbMatches, dbGames,
                   calls, pageVars>>

MatchStates ==
    /\ pc = "trace"
    /\ entries' = calculateEloMatchStates(matches, totalsByMatch, seedPlayerIds)
    /\ pc' = "board"
    /\ UNCHANGED <<env, matches, games, seedPlayerIds, totalsByMatch, states, orderedMatches,
                   idx, ratings, playerId, deltas, stats, rows, dbMatches, dbGames,
                   calls, pageVars>>

Leaderboard ==
    /\ pc = "board"
    /\ rows' = buildLeaderboardRows(AllPlayers, matches, games)
    /\ pc' = "deltas"
    /\ UNCHANGED <<env, matches, games, seedPlayerIds, totalsByMatch, states, orderedMatches,
                   idx, ratings, entries, playerId, deltas, stats, dbMatches, dbGames,
                   calls, pageVars>>

DeltasForPlayer ==
    /\ pc = "deltas"
    /\ \E target \in Targets :
         /\ playerId' = target
         /\ deltas' = calculateEloDeltasForPlayer(matches, totalsByMatch, target, seedPlayerIds)
    /\ pc' = "stats"
    /\ UNCHANGED <<env, matches, games, seedPlayerIds, totalsByMatch, states, orderedMatches,
                   idx, ratings, entries, stats, rows, dbMatches, dbGames,
                   calls, pageVars>>

ProfileStats ==
    /\ pc = "stats"
    /\ stats' = PlayerStats(matches, games, playerId)
    /\ pc' = "done"
    /\ UNCHANGED <<env, matches, games, seedPlayerIds, totalsByMatch, states, orderedMatches,
                   idx, ratings, entries, playerId, deltas, rows, dbMatches, dbGames,
                   calls, pageVars>>

Next ==
    \/ BuildTotals
    \/ SeedRatings
    \/ ProcessMatch
    \/ FinishRatings
    \/ MatchStates
    \/ Leaderboard
    \/ DeltasForPlayer
    \/ ProfileStats

Spec == Init /\ [][Next]_vars

-----------------------------------------------------------------------------
(* The store and the pages' loads.  The server functions match_create,       *)
(* match_update and match_void are described in DATABASE.md; the client      *)
(* reads the active rows and recomputes everything from them.                *)

MaxOps == 3

StoredIds == {m.id : m \in dbMatches}

\* the number of store operations carried out so far
OpsDone ==
    LET rowsOf == SetToSeq(StoredIds)
        opsOf(id) == LET m == CHOOSE r \in dbMatches : r.id = id
                     IN  1 + m.updates + (IF m.is_active THEN 0 ELSE 1)
    IN  SeqSum([i \in DOMAIN rowsOf |-> opsOf(rowsOf[i])])

\* match_create and match_update validate the games: a non-empty array, no tied score
ServerAcceptsGames(sheet) ==
    /\ sheet # <<>>
    /\ \A k \in DOMAIN sheet : sheet[k][1] # sheet[k][2]

StoredGameRows(id, sheet, active) ==
    { [match_id |-> id, game_number |-> k, side_a_score |-> sheet[k][1],
       side_b_score |-> sheet[k][2], is_active |-> active] : k \in DOMAIN sheet }

Deactivated(gameRows) == { [g EXCEPT !.is_active = FALSE] : g \in gameRows }

\* no load is between its first read and its last computation
NoLoadRunning == pc \in {"idle", "done"}

\* the match dates a new match is given: the day before the earliest stored
\* match (a back-dated insert) or the day after the latest one
NewMatchDates ==
    LET dates == {m.match_date : m \in dbMatches}
    IN  IF dates = {} THEN {1}
        ELSE { (CHOOSE d \in dates : \A other \in dates : d <= other) - 1,
               (CHOOSE d \in dates : \A other \in dates : d >= other) + 1 }

\* createMatch: rpc match_create.  The creation timestamp is the server's
\* clock; the match date is the caller's, so a match can be back-dated.
CreateMatch ==
    /\ NoLoadRunning
    /\ OpsDone < MaxOps
    /\ \E id \in MatchIds \ StoredIds, date \in NewMatchDates : \E sheet \in Sheets[id] :
         /\ ServerAcceptsGames(sheet)
         /\ dbMatches' = dbMatches \cup
              { [id |-> id, match_date |-> date, created_at |-> Cardinality(dbMatches) + 1,
                 is_active |-> TRUE, updates |-> 0] }
         /\ dbGames' = dbGames \cup StoredGameRows(id, sheet, TRUE)
    /\ pc' = "idle"
    /\ UNCHANGED <<env, matches, games, seedPlayerIds, totalsByMatch, states, orderedMatches,
                   idx, ratings, entries, playerId, deltas, stats, rows, calls, pageVars>>

\* updateMatch: rpc match_update with new games.  The active game rows are
\* deactivated and the replacement rows inserted.
UpdateMatch ==
    /\ NoLoadRunning
    /\ OpsDone < MaxOps
    /\ \E m \in dbMatches : \E sheet \in Sheets[m.id] :
         LET current == {g \in dbGames : g.match_id = m.id /\ g.is_active}
         IN  /\ m.is_active
             /\ ServerAcceptsGames(sheet)
             /\ StoredGameRows(m.id, sheet, TRUE) # current
             /\ dbMatches' = (dbMatches \ {m}) \cup {[m EXCEPT !.updates = @ + 1]}
             /\ dbGames' = ((dbGames \ current) \cup Deactivated(current))
                             \cup StoredGameRows(m.id, sheet, TRUE)
    /\ pc' = "idle"
    /\ UNCHANGED <<env, matches, games, seedPlayerIds, totalsByMatch, states, orderedMatches,
                   idx, ratings, entries, playerId, deltas, stats, rows, calls, pageVars>>

\* voidMatch: rpc match_void deactivates the match and its games
VoidMatch ==
    /\ NoLoadRunning
    /\ OpsDone < MaxOps
    /\ \E m \in dbMatches :
         LET current == {g \in dbGames : g.match_id = m.id /\ g.is_active}
         IN  /\ m.is_active
             /\ dbMatches' = (dbMatches \ {m}) \cup {[m EXCEPT !.is_active = FALSE]}
             /\ dbGames' = (dbGames \ current) \cup Deactivated(current)
    /\ pc' = "idle"
    /\ UNCHANGED <<env, matches, games, seedPlayerIds, totalsByMatch, states, orderedMatches,
                   idx, ratings, entries, playerId, deltas, stats, rows, calls, pageVars>>

\* listMatches without includeInactive: the active rows, by ascending identifier
listMatches ==
    LET ids == SetToSeq({m.id : m \in {r \in dbMatches : r.is_active}})
    IN  [i \in DOMAIN ids |->
           LET m == CHOOSE r \in dbMatches : r.id = ids[i]
           IN  MatchRowOf(m.id, <<m.match_date, m.created_at>>)]

\* listGamesByMatchIds without includeInactive: the active game rows of the
\* given matches, by match identifier and game number
listGamesByMatchIds(matchIds) ==
    LET ids == SetToSeq(matchIds)
        gamesOf(id) ==
            LET own == {g \in dbGames : g.match_id = id /\ g.is_active}
                numbers == SetToSeq({g.game_number : g \in own})
            IN  [k \in DOMAIN numbers |->
                   LET g == CHOOSE r \in own : r.game_number = numbers[k]
                   IN  [match_id |-> g.match_id, game_number |-> g.game_number,
                        side_a_score |-> g.side_a_score, side_b_score |-> g.side_b_score]]
        RECURSIVE Concat(_)
        Concat(i) == IF i > Len(ids) THEN <<>> ELSE gamesOf(ids[i]) \o Concat(i + 1)
    IN  Concat(1)

\* the reads at the start of a page load: the active matches, then their games
LoadSnapshot ==
    /\ NoLoadRunning
    /\ matches' = listMatches
    /\ games' = listGamesByMatchIds({listMatches[i].id : i \in DOMAIN listMatches})
    /\ pc' = "totals"
    /\ UNCHANGED <<env, seedPlayerIds, totalsByMatch, states, orderedMatches, idx, ratings,
                   entries, playerId, deltas, stats, rows, dbMatches, dbGames,
                   calls, pageVars>>

InitStore ==
    /\ env = EnvUnset
    /\ matches = <<>>
    /\ games = <<>>
    /\ seedPlayerIds = <<>>
    /\ pc = "idle"
    /\ totalsByMatch = EmptyMap
    /\ states = EmptyMap
    /\ orderedMatches = <<>>
    /\ idx = 0
    /\ ratings = EmptyMap
    /\ entries = <<>>
    /\ rows = EmptyMap
    /\ playerId = 0
    /\ deltas = EmptyMap
    /\ stats = EmptyMap
    /\ dbMatches = {}
    /\ dbGames = {}
    /\ calls = <<>>
    /\ PagesIdle

NextStore ==
    \/ CreateMatch
    \/ UpdateMatch
    \/ VoidMatch
    \/ LoadSnapshot
    \/ BuildTotals
    \/ SeedRatings
    \/ ProcessMatch
    \/ FinishRatings
    \/ MatchStates
    \/ Leaderboard
    \/ DeltasForPlayer
    \/ ProfileStats

SpecStore == InitStore /\ [][NextStore]_vars

-----------------------------------------------------------------------------
(* One iteration of the replay on given rating states: the forEach body of   *)
(* calculateEloMatchStates and of calculateEloRatings applied to one match.  *)

\* the classic settings: scale 400 and K 32
EnvClassic == [EnvUnset EXCEPT !.VITE_ELO_SCALE = Num(400 * FP), !.VITE_ELO_K = Num(32 * FP)]

\* the ratings the players have when the iteration starts
PriorRatings == {900 * FP, 1000 * FP, 1100 * FP}

\* a player off the baseline has played before
PriorStates ==
    { [p \in SeqToSet(AllPlayers) |->
         [rating |-> r[p], matchesPlayed |-> IF r[p] = 1000 * FP THEN 0 ELSE 1]] :
      r \in [SeqToSet(AllPlayers) -> PriorRatings] }

InitStep ==
    /\ env \in {EnvUnset, EnvClassic, EnvFloorNearBaseline}
    /\ \E id \in MatchIds : \E sheet \in Sheets[id] :
         /\ matches = <<MatchRowOf(id, <<1, 1>>)>>
         /\ games = GameRowsOf(id, sheet)
         /\ totalsByMatch = buildMatchGameTotals(matches, games)
    /\ seedPlayerIds = AllPlayers
    /\ states \in PriorStates
    /\ \A p \in DOMAIN states : states[p].rating >= eloConfig.floor
    /\ orderedMatches = matches
    /\ idx = 1
    /\ pc = "step"
    /\ ratings = EmptyMap
    /\ entries = <<>>
    /\ rows = EmptyMap
    /\ playerId = 0
    /\ deltas = EmptyMap
    /\ stats = EmptyMap
    /\ dbMatches = {}
    /\ dbGames = {}
    /\ calls = <<>>
    /\ PagesIdle

\* calculateEloMatchStates: one iteration of the forEach over orderedMatches
TraceStep ==
    /\ pc = "step"
    /\ entries' = MatchStatesStep([states |-> states, entries |-> <<>>],
                                  orderedMatches[idx], totalsByMatch).entries
    /\ pc' = "replay"
    /\ UNCHANGED <<env, matches, games, seedPlayerIds, totalsByMatch, states, orderedMatches,
                   idx, ratings, playerId, deltas, stats, rows, dbMatches, dbGames,
                   calls, pageVars>>

NextStep ==
    \/ TraceStep
    \/ ProcessMatch
    \/ FinishRatings

SpecStep == InitStep /\ [][NextStep]_vars

-----------------------------------------------------------------------------
(* Invocations of the replay functions in progress at the same time.  The    *)
(* Map a function builds is a local of the invocation; an invocation is      *)
(* interleaved with the others between two iterations of its forEach.        *)

MaxCalls == 2

\* listMatches with and without the matchType filter
SinglesOnly(list) == SelectSeq(list, LAMBDA m : m.match_type = "singles")

Snapshots == {matches, SinglesOnly(matches)}

\* the locals of an invocation when it reaches its forEach over orderedMatches
NewCall(kind, target, snapshot) ==
    LET seeds == IF kind = "ratings" THEN AllPlayers ELSE <<>>
        seeded == EnsureAll(EmptyMap, seeds)
    IN  [ kind     |-> kind,
          target   |-> target,
          matches  |-> snapshot,
          totals   |-> buildMatchGameTotals(snapshot, games),
          seeds    |-> seeds,
          states   |-> IF kind = "deltas" THEN ensureState(seeded, target) ELSE seeded,
          deltas   |-> EmptyMap,
          ordered  |-> SortMatches(snapshot),
          idx      |-> 1,
          returned |-> FALSE,
          out      |-> EmptyMap ]

\* a page calls calculateEloRatings (the leaderboard) or
\* calculateEloDeltasForPlayer (a profile) on its own snapshot
StartCall ==
    /\ pc = "calls"
    /\ Len(calls) < MaxCalls
    /\ \E snapshot \in Snapshots :
         \/ calls' = Append(calls, NewCall("ratings", 0, snapshot))
         \/ \E target \in Targets : calls' = Append(calls, NewCall("deltas", target, snapshot))
    /\ UNCHANGED <<env, matches, games, seedPlayerIds, pc, totalsByMatch, states,
                   orderedMatches, idx, ratings, entries, playerId, deltas, stats, rows,
                   dbMatches, dbGames, pageVars>>

\* faulty variant: the rating states are one Map of the module, which every
\* invocation reads and writes (here: the Map of the first invocation)
StepCall_SharedStates ==
    /\ pc = "calls"
    /\ \E i \in DOMAIN calls :
         LET call == calls[i]
             match == call.ordered[call.idx]
         IN  /\ ~call.returned
             /\ call.idx <= Len(call.ordered)
             /\ IF call.kind = "ratings"
                THEN LET next == RatingsStep(calls[1].states, match, call.totals)
                     IN  calls' = [[calls EXCEPT ![i].idx = @ + 1] EXCEPT ![1].states = next]
                ELSE LET run == DeltasStep([states |-> EnsureAll(calls[1].states,
                                                                 <<call.target>>),
                                            deltas |-> call.deltas],
                                           match, call.totals, call.target)
                     IN  calls' = [[calls EXCEPT ![i].deltas = run.deltas, ![i].idx = @ + 1]
                                     EXCEPT ![1].states = run.states]
    /\ UNCHANGED <<env, matches, games, seedPlayerIds, pc, totalsByMatch, states,
                   orderedMatches, idx, ratings, entries, playerId, deltas, stats, rows,
                   dbMatches, dbGames, pageVars>>

\* one iteration of the forEach over orderedMatches of one invocation
StepCall ==
    /\ pc = "calls"
    /\ \E i \in DOMAIN calls :
         LET call == calls[i]
             match == call.ordered[call.idx]
         IN  /\ ~call.returned
             /\ call.idx <= Len(call.ordered)
             /\ IF call.kind = "ratings"
                THEN calls' = [calls EXCEPT
                                 ![i].states = RatingsStep(call.states, match, call.totals),
                                 ![i].idx = @ + 1]
                ELSE LET run == DeltasStep([states |-> call.states, deltas |-> call.deltas],
                                           match, call.totals, call.target)
                     IN  calls' = [calls EXCEPT ![i].states = run.states,
                                                ![i].deltas = run.deltas,
                                                ![i].idx = @ + 1]
    /\ UNCHANGED <<env, matches, games, seedPlayerIds, pc, totalsByMatch, states,
                   orderedMatches, idx, ratings, entries, playerId, deltas, stats, rows,
                   dbMatches, dbGames, pageVars>>

\* the return of an invocation: the rating map, or the delta map
ReturnCall ==
    /\ pc = "calls"
    /\ \E i \in DOMAIN calls :
         /\ ~calls[i].returned
         /\ calls[i].idx > Len(calls[i].ordered)
         /\ calls' = [calls EXCEPT
                        ![i].returned = TRUE,
                        ![i].out = IF calls[i].kind = "ratings"
                                   THEN RatingsOf(calls[i].states) ELSE calls[i].deltas]
    /\ UNCHANGED <<env, matches, games, seedPlayerIds, pc, totalsByMatch, states,
                   orderedMatches, idx, ratings, entries, playerId, deltas, stats, rows,
                   dbMatches, dbGames, pageVars>>

\* the three fixtures on two days, each with a decisive score sheet
InitCalls ==
    /\ env = EnvUnset
    /\ matches = <<MatchRowOf(3, <<2, 1>>), MatchRowOf(1, <<1, 1>>), MatchRowOf(2, <<1, 2>>)>>
    /\ \E sheet1 \in Sheets[1], sheet2 \in Sheets[2], sheet3 \in Sheets[3] :
         /\ ServerAcceptsGames(sheet1)
         /\ ServerAcceptsGames(sheet2)
         /\ ServerAcceptsGames(sheet3)
         /\ games = GameRowsOf(1, sheet1) \o GameRowsOf(2, sheet2) \o GameRowsOf(3, sheet3)
    /\ seedPlayerIds = <<>>
    /\ pc = "calls"
    /\ totalsByMatch = EmptyMap
    /\ states = EmptyMap
    /\ orderedMatches = <<>>
    /\ idx = 0
    /\ ratings = EmptyMap
    /\ entries = <<>>
    /\ rows = EmptyMap
    /\ playerId = 0
    /\ deltas = EmptyMap
    /\ stats = EmptyMap
    /\ dbMatches = {}
    /\ dbGames = {}
    /\ calls = <<>>
    /\ PagesIdle

NextCalls ==
    \/ StartCall
    \/ StepCall
    \/ ReturnCall

SpecCalls == InitCalls /\ [][NextCalls]_vars

-----------------------------------------------------------------------------
(* Vocabulary of the properties *)

\* canonical order, stated on the triple (match date, creation timestamp, identifier)
Before(a, b) ==
    \/ a.match_date < b.match_date
    \/ a.match_date = b.match_date /\ a.created_at < b.created_at
    \/ a.match_date = b.match_date /\ a.created_at = b.created_at /\ a.id < b.id

MatchById(id) == CHOOSE m \in SeqToSet(matches) : m.id = id

Members(match) == SeqToSet(match.team_a) \cup SeqToSet(match.team_b)

\* decided, as the spec defines it: the totals map has the match with totalGames > 0
Decided(match) ==
    /\ match.id \in DOMAIN totalsByMatch
    /\ totalsByMatch[match.id].totalGames > 0

\* the games of a match, in game-number order
GamesOfMatch(id) ==
    LET own == {games[i] : i \in {j \in DOMAIN games : games[j].match_id = id}}
    IN  [k \in 1..Cardinality(own) |-> CHOOSE g \in own : g.game_number = k]

MatchPermutations(list) ==
    { [i \in DOMAIN list |-> list[perm[i]]] : perm \in Permutations(DOMAIN list) }

\* rearrangements of the game array: reversed, rotated, first two swapped
GameRearrangements(list) ==
    IF Len(list) < 2 THEN {list}
    ELSE { list, Reverse(list), Tail(list) \o <<Head(list)>>,
           <<list[2], list[1]>> \o SubSeq(list, 3, Len(list)) }

-----------------------------------------------------------------------------
(* C1: for a fixed set of matches, games and seeds, the final ratings, the   *)
(* per-match trace and the target's deltas are the same for every            *)
(* permutation of the match array and rearrangement of the game array.       *)

C1_Determinism ==
    /\ pc = "seed" =>
         \A m \in MatchPermutations(matches), g \in GameRearrangements(games) :
            buildMatchGameTotals(m, g) = totalsByMatch
    /\ pc = "board" =>
         \A m \in MatchPermutations(matches) :
            /\ calculateEloRatings(m, totalsByMatch, seedPlayerIds) = ratings
            /\ calculateEloMatchStates(m, totalsByMatch, seedPlayerIds) = entries
    /\ pc = "stats" =>
         \A m \in MatchPermutations(matches) :
            calculateEloDeltasForPlayer(m, totalsByMatch, playerId, seedPlayerIds) = deltas

\* three decided matches that share a timestamp, handed over out of order
C1_Witness ==
    /\ pc = "stats"
    /\ Len(entries) = 3
    /\ matches # SortMatches(matches)
    /\ \A i, j \in DOMAIN matches :
          matches[i].match_date = matches[j].match_date
            /\ matches[i].created_at = matches[j].created_at
    /\ DOMAIN deltas # {}

-----------------------------------------------------------------------------
(* C2: for every configuration the program accepts, no rating is below the   *)
(* configured floor at any point of the replay or in any trace entry.        *)

C2_FloorInvariant ==
    /\ \A p \in DOMAIN states : states[p].rating >= eloConfig.floor
    /\ \A p \in DOMAIN ratings : ratings[p] >= eloConfig.floor
    /\ \A k \in DOMAIN entries : \A p \in DOMAIN entries[k].preRatings :
          /\ entries[k].preRatings[p] >= eloConfig.floor
          /\ entries[k].postRatings[p] >= eloConfig.floor

-----------------------------------------------------------------------------
(* C3: a player's matches-played counter is the number of decided matches    *)
(* processed so far that include the player (skipped matches leave it        *)
(* alone), and the pre-match count in a trace entry is the number of decided *)
(* matches earlier in canonical order that include the player.               *)

DecidedBefore(p, match) ==
    Cardinality({ i \in DOMAIN matches :
                    /\ Decided(matches[i])
                    /\ p \in Members(matches[i])
                    /\ Before(matches[i], match) })

C3_MatchesPlayedCount ==
    /\ pc = "replay" =>
         \A p \in DOMAIN states :
            states[p].matchesPlayed =
              Cardinality({ i \in 1..(idx - 1) :
                              /\ Decided(orderedMatches[i])
                              /\ p \in Members(orderedMatches[i]) })
    /\ pc = "board" =>
         \A k \in DOMAIN entries : \A p \in DOMAIN entries[k].preMatches :
            entries[k].preMatches[p] = DecidedBefore(p, MatchById(entries[k].matchId))

\* a trace entry of a player's second decided match, with an undecided match
\* of the same player before it
C3_Witness ==
    /\ pc = "board"
    /\ \E k \in DOMAIN entries : \E p \in DOMAIN entries[k].preMatches :
          /\ entries[k].preMatches[p] = 1
          /\ \E i \in DOMAIN matches :
                /\ ~Decided(matches[i])
                /\ p \in Members(matches[i])
                /\ Before(matches[i], MatchById(entries[k].matchId))

-----------------------------------------------------------------------------
(* C4: for every decided match the two sides' win counts add up to the       *)
(* number of games counted, so the two actual scores add up to 1, also when  *)
(* the game rows contain drawn games.                                        *)

C4_ActualScoresSumToOne ==
    pc = "seed" =>
      \A id \in DOMAIN totalsByMatch :
         LET totals == totalsByMatch[id]
         IN  totals.totalGames > 0 =>
               /\ totals.sideAWins + totals.sideBWins = totals.totalGames
               /\ RoundDiv(totals.sideAWins * FP, totals.totalGames)
                    + RoundDiv(totals.sideBWins * FP, totals.totalGames) = FP

\* a decided match one of whose game rows is a draw
C4_Witness ==
    /\ pc = "seed"
    /\ \E id \in DOMAIN totalsByMatch :
          /\ totalsByMatch[id].totalGames > 0
          /\ \E i \in DOMAIN games :
                /\ games[i].match_id = id
                /\ games[i].side_a_score = games[i].side_b_score

-----------------------------------------------------------------------------
(* C5: a best-of-3 match whose only games are 11-5 and 5-11 is undecided     *)
(* everywhere: the Elo replay leaves the ratings and counters alone, the     *)
(* player statistics count neither a match played nor a win or loss, and the *)
(* leaderboard counts it for nobody.                                         *)

IsOneGameEach(match) ==
    /\ match.match_format = "bo3"
    /\ GamesOfMatch(match.id) \in
         { GameRowsOf(match.id, << <<11, 5>>, <<5, 11>> >>) }

WithoutMatch(list, id) == SelectSeq(list, LAMBDA m : m.id # id)

C5_OneGameEachIsUndecided ==
    \A i \in DOMAIN matches :
       IsOneGameEach(matches[i]) =>
         /\ \A k \in DOMAIN entries : entries[k].matchId # matches[i].id
         /\ matches[i].id \notin DOMAIN deltas
         /\ pc = "done" =>
              \A k \in DOMAIN stats.results : stats.results[k].matchId # matches[i].id
         /\ pc = "deltas" =>
              \A r \in DOMAIN rows :
                 rows[r].matchesPlayed =
                   buildLeaderboardRows(AllPlayers, WithoutMatch(matches, matches[i].id),
                                        games)[r].matchesPlayed

-----------------------------------------------------------------------------
(* C7: processing a match that is absent from the totals map, or whose total *)
(* of games is zero, leaves the rating state as it was: no state is created  *)
(* for its players, the trace has no entry for it and the target has no      *)
(* delta for it.                                                             *)

InSomeDecidedMatch(p) ==
    \E i \in DOMAIN matches : Decided(matches[i]) /\ p \in Members(matches[i])

C7_SkippedMatchIsInert ==
    /\ [][ (pc = "replay" /\ idx <= Len(orderedMatches) /\ ~Decided(orderedMatches[idx]))
             => states' = states ]_vars
    /\ [](pc = "stats" =>
            \A i \in DOMAIN matches :
               ~Decided(matches[i]) =>
                 /\ \A k \in DOMAIN entries : entries[k].matchId # matches[i].id
                 /\ matches[i].id \notin DOMAIN deltas
                 /\ \A p \in Members(matches[i]) :
                       p \in DOMAIN ratings =>
                         p \in SeqToSet(seedPlayerIds) \/ InSomeDecidedMatch(p))

\* a replay without seeds that has gone over a match with no game row and over
\* a match whose only game is drawn, and has no rating for one of their players
C7_Witness ==
    /\ pc = "stats"
    /\ seedPlayerIds = <<>>
    /\ \E i, j \in DOMAIN matches :
          /\ matches[i].id \notin DOMAIN totalsByMatch
          /\ matches[j].id \in DOMAIN totalsByMatch
          /\ totalsByMatch[matches[j].id].totalGames = 0
          /\ \E p \in Members(matches[i]) \cup Members(matches[j]) : p \notin DOMAIN ratings
    /\ ratings # EmptyMap

-----------------------------------------------------------------------------
(* C8: the totals aggregator ignores game rows whose match is not in the     *)
(* given match array: the map has keys only for the given matches, and the   *)
(* totals are the same with and without such rows.                           *)

MatchIdsOf(list) == {list[i].id : i \in DOMAIN list}

IsStray(game) == game.match_id \notin MatchIdsOf(matches)

WithoutStrays(list) == SelectSeq(list, LAMBDA g : ~IsStray(g))

C8_StrayGamesIgnored ==
    pc = "seed" =>
      /\ DOMAIN totalsByMatch \subseteq MatchIdsOf(matches)
      /\ totalsByMatch = buildMatchGameTotals(matches, WithoutStrays(games))

\* totals computed from game rows some of which belong to no given match
C8_Witness ==
    /\ pc = "seed"
    /\ \E i \in DOMAIN games : IsStray(games[i])
    /\ \E id \in DOMAIN totalsByMatch : totalsByMatch[id].totalGames > 0

-----------------------------------------------------------------------------
(* C9: compareMatches is a total order on the matches (by date, then         *)
(* creation timestamp, then identifier), and the Elo replay, the trace, the  *)
(* streak scan and the Elo series all go through the matches in that order.  *)

InCanonicalOrder(ids) ==
    \A i, j \in DOMAIN ids :
       i < j => compareMatches(MatchById(ids[i]), MatchById(ids[j])) < 0

C9_OneCanonicalOrder ==
    /\ pc = "seed" =>
         \A i, j, k \in DOMAIN matches :
            LET a == matches[i]
                b == matches[j]
                c == matches[k]
            IN  /\ compareMatches(a, b) = 0 - compareMatches(b, a)
                /\ (compareMatches(a, b) = 0) <=> (a.id = b.id)
                /\ (compareMatches(a, b) < 0 /\ compareMatches(b, c) < 0)
                     => compareMatches(a, c) < 0
                /\ (compareMatches(a, b) < 0) <=> Before(a, b)
    /\ pc = "replay" =>
         InCanonicalOrder([i \in DOMAIN orderedMatches |-> orderedMatches[i].id])
    /\ pc = "board" =>
         InCanonicalOrder([k \in DOMAIN entries |-> entries[k].matchId])
    /\ pc = "done" =>
         /\ InCanonicalOrder([k \in DOMAIN stats.results |-> stats.results[k].matchId])
         /\ InCanonicalOrder([k \in DOMAIN stats.eloSeries |-> stats.eloSeries[k].matchId])

\* statistics with three results and three series points, from an array that
\* is not in canonical order and has two matches with the same date
C9_Witness ==
    /\ pc = "done"
    /\ Len(stats.results) = 3
    /\ Len(stats.eloSeries) = 3
    /\ matches # SortMatches(matches)
    /\ \E i, j \in DOMAIN matches :
          i # j /\ matches[i].match_date = matches[j].match_date

-----------------------------------------------------------------------------
(* C10: the three output shapes agree.  A player's final rating is the       *)
(* post-match rating of the player's last trace entry, or the baseline when  *)
(* the player has none; the target's delta for a match is the post-match     *)
(* minus the pre-match rating of the target in that match's trace entry.     *)

EntriesOf(p) == {k \in DOMAIN entries : p \in DOMAIN entries[k].postRatings}

LastEntryOf(p) == CHOOSE k \in EntriesOf(p) : \A other \in EntriesOf(p) : other <= k

C10_OutputShapesAgree ==
    pc = "stats" =>
      /\ \A p \in DOMAIN ratings :
            ratings[p] = IF EntriesOf(p) = {} THEN eloConfig.baseline
                         ELSE entries[LastEntryOf(p)].postRatings[p]
      /\ \A k \in DOMAIN entries : DOMAIN entries[k].postRatings \subseteq DOMAIN ratings
      /\ DOMAIN deltas = {entries[k].matchId : k \in EntriesOf(playerId)}
      /\ \A k \in EntriesOf(playerId) :
            deltas[entries[k].matchId]
              = entries[k].postRatings[playerId] - entries[k].preRatings[playerId]

\* a target with two deltas that differ, and a seeded player without a trace entry
C10_Witness ==
    /\ pc = "stats"
    /\ \E a, b \in DOMAIN deltas : deltas[a] # deltas[b] /\ deltas[a] # 0 /\ deltas[b] # 0
    /\ \E p \in DOMAIN ratings : EntriesOf(p) = {}

-----------------------------------------------------------------------------
(* C6: after any sequence of creations, score edits, voids and back-dated    *)
(* inserts, what a recomputation produces is what a replay from the empty    *)
(* state over the active rows alone produces; nothing an earlier             *)
(* recomputation produced has an influence, so recomputing twice on the same *)
(* rows gives the same output.                                               *)

ActiveMatchRows ==
    LET active == {m \in dbMatches : m.is_active}
        ids == SetToSeq({m.id : m \in active})
    IN  [i \in DOMAIN ids |->
           LET m == CHOOSE r \in active : r.id = ids[i]
           IN  MatchRowOf(m.id, <<m.match_date, m.created_at>>)]

ActiveGameRows ==
    LET active == {g \in dbGames :
                     g.is_active /\ \E m \in dbMatches : m.is_active /\ m.id = g.match_id}
        keys == SetToSeq({g.match_id * 10 + g.game_number : g \in active})
    IN  [i \in DOMAIN keys |->
           LET g == CHOOSE r \in active : r.match_id * 10 + r.game_number = keys[i]
           IN  [match_id |-> g.match_id, game_number |-> g.game_number,
                side_a_score |-> g.side_a_score, side_b_score |-> g.side_b_score]]

C6_RecomputationIsReplayOfActiveRows ==
    pc = "done" =>
      LET activeTotals == buildMatchGameTotals(ActiveMatchRows, ActiveGameRows)
      IN  /\ totalsByMatch = activeTotals
          /\ ratings = calculateEloRatings(ActiveMatchRows, activeTotals, seedPlayerIds)
          /\ entries = calculateEloMatchStates(ActiveMatchRows, activeTotals, seedPlayerIds)
          /\ deltas = calculateEloDeltasForPlayer(ActiveMatchRows, activeTotals, playerId,
                                                  seedPlayerIds)
          /\ stats = PlayerStats(ActiveMatchRows, ActiveGameRows, playerId)
          /\ rows = buildLeaderboardRows(AllPlayers, ActiveMatchRows, ActiveGameRows)

\* a recomputation after the games of a match were edited, with a later match
\* rated after it
C6_Witness ==
    /\ pc = "done"
    /\ Len(entries) = 2
    /\ \E m \in dbMatches :
          /\ m.is_active
          /\ m.updates > 0
          /\ entries[1].matchId = m.id

-----------------------------------------------------------------------------
(* C11: seeding at the baseline and adding the target's deltas in canonical  *)
(* order gives the target's rating after each of their decided matches,      *)
(* also when the floor clamps.  The profile's Elo series has one point per   *)
(* decided match of the target once the target has the minimum number of     *)
(* matches for Elo display, and is empty below that number.                  *)

\* the trace entries of the target, in trace order
TargetEntries == SetToSeq(EntriesOf(playerId))

RECURSIVE DeltaSum(_, _)
DeltaSum(deltaMap, k) ==
    IF k = 0 THEN 0
    ELSE DeltaSum(deltaMap, k - 1) + deltaMap[entries[TargetEntries[k]].matchId]

SeriesFollowsTrace ==
    /\ Len(stats.eloSeries) = Len(TargetEntries)
    /\ \A k \in DOMAIN TargetEntries :
          /\ stats.eloSeries[k].matchId = entries[TargetEntries[k]].matchId
          /\ stats.eloSeries[k].value = entries[TargetEntries[k]].postRatings[playerId]

\* the claim as stated: one point per decided match for every target
C11_SeriesForEveryTarget ==
    pc = "done" => SeriesFollowsTrace

C11_TrajectoryFromDeltas ==
    /\ pc = "stats" =>
         \A k \in DOMAIN TargetEntries :
            eloConfig.baseline + DeltaSum(deltas, k)
              = entries[TargetEntries[k]].postRatings[playerId]
    /\ pc = "done" =>
         IF Len(TargetEntries) >= MIN_MATCHES_FOR_ELO_DISPLAY
         THEN SeriesFollowsTrace
         ELSE stats.eloSeries = <<>>

\* a series of three points, the first of them at the floor, which is below
\* the baseline and above what the first delta would have given
C11_Witness ==
    /\ pc = "done"
    /\ Len(stats.eloSeries) = 3
    /\ eloConfig.floor < eloConfig.baseline
    /\ stats.eloSeries[1].value = eloConfig.floor
    /\ stats.eloSeries[2].value # stats.eloSeries[1].value

-----------------------------------------------------------------------------
(* C12: every seed is in the final rating map; a seeded player without a     *)
(* decided match has exactly the baseline rating; and the seeds change the   *)
(* rating of no player who has decided matches.                              *)

C12_SeedsAppearAtBaseline ==
    pc = "trace" =>
      LET unseeded == calculateEloRatings(matches, totalsByMatch, <<>>)
      IN  /\ SeqToSet(seedPlayerIds) \subseteq DOMAIN ratings
          /\ \A p \in SeqToSet(seedPlayerIds) :
                ~InSomeDecidedMatch(p) => ratings[p] = eloConfig.baseline
          /\ \A p \in DOMAIN ratings : InSomeDecidedMatch(p) <=> p \in DOMAIN unseeded
          /\ \A p \in DOMAIN unseeded : ratings[p] = unseeded[p]

\* a seeded replay in which one seed has no decided match and another seed's
\* rating has moved away from the baseline
C12_Witness ==
    /\ pc = "trace"
    /\ seedPlayerIds # <<>>
    /\ \E p, q \in SeqToSet(seedPlayerIds) :
          /\ ~InSomeDecidedMatch(p)
          /\ InSomeDecidedMatch(q)
          /\ ratings[q] # eloConfig.baseline

-----------------------------------------------------------------------------
(* C13: with baseline 1000, scale 400, K 32 and format weight 1, two players *)
(* at the baseline who play one best-of-3 singles match decided 2-0 each     *)
(* have expected score 0.5, and end at exactly 1016 and 984.                 *)

IsTwoNilBestOfThree ==
    /\ env = EnvClassic
    /\ Len(matches) = 1
    /\ matches[1].match_type = "singles"
    /\ matches[1].match_format = "bo3"
    /\ matches[1].id \in DOMAIN totalsByMatch
    /\ totalsByMatch[matches[1].id].sideAWins = 2
    /\ totalsByMatch[matches[1].id].sideBWins = 0
    /\ Len(entries) = 1
    /\ \A p \in DOMAIN entries[1].preRatings : entries[1].preRatings[p] = 1000 * FP

C13_SixteenPointScenario ==
    (pc = "trace" /\ IsTwoNilBestOfThree) =>
      LET winner == matches[1].team_a[1]
          loser  == matches[1].team_b[1]
      IN  /\ eloConfig.baseline = 1000 * FP
          /\ resolveFormatWeight("bo3") = FP
          /\ expectedScore(1000 * FP, 1000 * FP) = FP \div 2
          /\ 2 * expectedScore(1000 * FP, 1000 * FP) = FP
          /\ ratings[winner] = 1016 * FP
          /\ ratings[loser] = 984 * FP
          /\ entries[1].postRatings[winner] = 1016 * FP
          /\ entries[1].postRatings[loser] = 984 * FP

C13_Witness ==
    /\ pc = "trace"
    /\ IsTwoNilBestOfThree
    /\ ratings[matches[1].team_a[1]] > ratings[matches[1].team_b[1]]

-----------------------------------------------------------------------------
(* C14: in a doubles match a side's expected score depends on its members'   *)
(* ratings only through their mean (both of A at 1000 against both of B at   *)
(* 1100 gives 1/(1+10^(100/400)) under scale 400), and both members of a     *)
(* side get the same delta, so partners move by the same amount whenever the *)
(* floor does not bind.                                                      *)

TeamSum(st, team) == SeqSum([i \in DOMAIN team |-> st[team[i]].rating])

Moved(entry, p) == entry.postRatings[p] - entry.preRatings[p]

FloorBinds(entry) == \E p \in DOMAIN entry.postRatings : entry.postRatings[p] = eloConfig.floor

\* what the iteration does to the same match from other rating states
TraceFrom(prior) ==
    MatchStatesStep([states |-> prior, entries |-> <<>>], matches[1], totalsByMatch).entries

C14_DoublesMeanAndSharedDelta ==
    (pc = "replay" /\ matches[1].match_type = "doubles" /\ entries # <<>>) =>
      LET entry == entries[1]
          teamA == matches[1].team_a
          teamB == matches[1].team_b
      IN  /\ \A p, q \in SeqToSet(teamA) :
                ~FloorBinds(entry) => Moved(entry, p) = Moved(entry, q)
          /\ \A p, q \in SeqToSet(teamB) :
                ~FloorBinds(entry) => Moved(entry, p) = Moved(entry, q)
          /\ \A other \in PriorStates :
                ( /\ TeamSum(other, teamA) = TeamSum(states, teamA)
                  /\ TeamSum(other, teamB) = TeamSum(states, teamB)
                  /\ ~FloorBinds(entry)
                  /\ ~FloorBinds(TraceFrom(other)[1]) )
                => /\ Moved(TraceFrom(other)[1], teamA[1]) = Moved(entry, teamA[1])
                   /\ Moved(TraceFrom(other)[1], teamB[1]) = Moved(entry, teamB[1])
          /\ ( /\ env = EnvClassic
               /\ \A p \in SeqToSet(teamA) : states[p].rating = 1000 * FP
               /\ \A p \in SeqToSet(teamB) : states[p].rating = 1100 * FP
               /\ ~FloorBinds(entry) )
             => Moved(entry, teamA[1])
                  = Mul(Mul(Mul(32 * FP, resolveFormatWeight(matches[1].match_format)),
                            eloConfig.doublesMultiplier),
                        RoundDiv(totalsByMatch[matches[1].id].sideAWins * FP,
                                 totalsByMatch[matches[1].id].totalGames)
                          - RoundDiv(FP * FP, FP + Pow10(FP \div 4)))

\* a doubles match won by a side whose members are at 900 and 1100, against
\* two players at 1100
C14_Witness ==
    /\ pc = "replay"
    /\ Len(entries) = 1
    /\ matches[1].match_type = "doubles"
    /\ entries[1].preRatings[matches[1].team_a[1]] = 900 * FP
    /\ entries[1].preRatings[matches[1].team_a[2]] = 1100 * FP
    /\ \A p \in SeqToSet(matches[1].team_b) : entries[1].preRatings[p] = 1100 * FP
    /\ Moved(entries[1], matches[1].team_a[1]) > 0
    /\ ~FloorBinds(entries[1])

-----------------------------------------------------------------------------
(* C15: replay invocations share no mutable state.  However two or more      *)
(* invocations are interleaved, each returns what it returns when run alone  *)
(* on its own snapshot.                                                      *)

AloneOutput(call) ==
    IF call.kind = "ratings"
    THEN calculateEloRatings(call.matches, call.totals, call.seeds)
    ELSE calculateEloDeltasForPlayer(call.matches, call.totals, call.target, call.seeds)

C15_InvocationsAreIsolated ==
    \A i \in DOMAIN calls : calls[i].returned => calls[i].out = AloneOutput(calls[i])

\* two invocations on different snapshots, both returned, the second of which
\* was started before the first had finished its iterations and returned first
C15_Witness ==
    /\ Len(calls) = 2
    /\ calls[1].returned
    /\ calls[2].returned
    /\ calls[1].matches # calls[2].matches
    /\ calls[1].kind # calls[2].kind
    /\ calls[1].out # EmptyMap
    /\ calls[2].out # EmptyMap

-----------------------------------------------------------------------------
(* The matches page: what it shows for one match of the loaded list.         *)

\* the totals the database caches on a match record, as <<side A, side B>>
CachedTotals == { <<2, 0>>, <<0, 2>>, <<1, 1>> }

\* a MatchRow with its cached side_a_games_won and side_b_games_won
WithCachedTotals(match, cached) ==
    [id |-> match.id, match_type |-> match.match_type,
     match_format |-> match.match_format,
     match_date |-> match.match_date, created_at |-> match.created_at,
     team_a |-> match.team_a, team_b |-> match.team_b,
     side_a_games_won |-> cached[1], side_b_games_won |-> cached[2]]

\* the match list with one cached total on every record
AllWithCachedTotals(matchList, cached) ==
    [i \in DOMAIN matchList |-> WithCachedTotals(matchList[i], cached)]

\* the score shown for a match, from the viewpoint of the target player when
\* there is one (a target outside AllPlayers stands for no target)
matchScoreLabel(match, matchTotalsById, targetPlayerId) ==
    LET known == match.id \in DOMAIN matchTotalsById
        sideAWins == IF known THEN matchTotalsById[match.id].sideAWins
                     ELSE match.side_a_games_won
        sideBWins == IF known THEN matchTotalsById[match.id].sideBWins
                     ELSE match.side_b_games_won
    IN  IF /\ targetPlayerId \in SeqToSet(AllPlayers)
           /\ resolvePlayerSide(match, targetPlayerId) = "B"
        THEN <<sideBWins, sideAWins>>
        ELSE <<sideAWins, sideBWins>>

\* the Win/Loss shown for a match of the target player, "" when none is shown
matchOutcome(match, matchTotalsById, targetPlayerId) ==
    IF targetPlayerId \notin SeqToSet(AllPlayers) THEN ""
    ELSE IF match.id \notin DOMAIN matchTotalsById THEN ""
    ELSE IF matchTotalsById[match.id].totalGames <= 0 THEN ""
    ELSE LET side == resolvePlayerSide(match, targetPlayerId)
             totals == matchTotalsById[match.id]
         IN  IF side = "none" THEN ""
             ELSE IF (IF side = "A" THEN totals.sideAWins > totals.sideBWins
                                    ELSE totals.sideBWins > totals.sideAWins)
                  THEN "Win" ELSE "Loss"

\* everything derived for the loaded matches when their records carry `cached`
OutcomesWith(cached) ==
    LET rowsWith == AllWithCachedTotals(matches, cached)
        totals == buildMatchGameTotals(rowsWith, games)
    IN  [totals |-> totals,
         ratings |-> calculateEloRatings(rowsWith, totals, seedPlayerIds),
         labels |-> [i \in DOMAIN rowsWith |->
                       [t \in Targets \cup {0} |->
                          matchScoreLabel(rowsWith[i], totals, t)]],
         outcomes |-> [i \in DOMAIN rowsWith |->
                         [t \in Targets \cup {0} |->
                            matchOutcome(rowsWith[i], totals, t)]]]

\* C16: every outcome derived for a match (games won per side, winner,
\* ratings, displayed result) is a function of the game rows only: two inputs
\* that differ only in the cached totals on the match records give identical
\* outputs.
C16_CachedTotalsAreIgnored ==
    pc = "seed" =>
        \A c1 \in CachedTotals, c2 \in CachedTotals : OutcomesWith(c1) = OutcomesWith(c2)

\* the part of C16 that the replay engine and the Win/Loss badge satisfy
C16_EngineIgnoresCachedTotals ==
    pc = "seed" =>
        \A c1 \in CachedTotals, c2 \in CachedTotals :
            /\ OutcomesWith(c1).totals = OutcomesWith(c2).totals
            /\ OutcomesWith(c1).totals = totalsByMatch
            /\ OutcomesWith(c1).ratings = OutcomesWith(c2).ratings
            /\ OutcomesWith(c1).outcomes = OutcomesWith(c2).outcomes

-----------------------------------------------------------------------------
(* C17: the whole-roster leaderboard returns exactly one row per known       *)
(* player; a player with zero decided matches has matches played = 0 and no  *)
(* Elo; a row carries an Elo value only if its matches played reaches the    *)
(* minimum-matches threshold.                                                *)

KnownPlayers ==
    SeqToSet(AllPlayers) \cup { matches[i].team_a[1] : i \in DOMAIN matches }
                         \cup { matches[i].team_b[1] : i \in DOMAIN matches }

C17_OneRowEachAndEloFromThreshold ==
    pc = "deltas" =>
        /\ DOMAIN rows = KnownPlayers
        /\ \A p \in DOMAIN rows :
              rows[p].elo # NullElo <=>
                 rows[p].matchesPlayed >= MIN_MATCHES_FOR_ELO_DISPLAY

-----------------------------------------------------------------------------
(* C18: the leaderboard is the same engine run for the whole roster.  For    *)
(* every player and the same match and game input, the leaderboard row's     *)
(* matches played, wins and losses equal the values the single-player        *)
(* statistics compute for that player, and its matches played equals the     *)
(* number of matches the Elo replay rated for that player.                   *)

\* the number of matches the finished replay rated for a player
RatedMatches(p) == IF p \in DOMAIN states THEN states[p].matchesPlayed ELSE 0

C18_LeaderboardAgreesWithStatsAndReplay ==
    pc = "done" =>
        /\ rows[playerId].matchesPlayed = stats.matchesPlayed
        /\ rows[playerId].wins = stats.wins
        /\ rows[playerId].losses = stats.losses
        /\ \A p \in DOMAIN rows : rows[p].matchesPlayed = RatedMatches(p)

-----------------------------------------------------------------------------
(* The ratio statistics of the profile page and of the leaderboard.          *)

\* the winPct of a leaderboard row
Leaderboard_winPct(row) ==
    IF row.matchesPlayed > 0 THEN Num(RoundDiv(row.wins * FP, row.matchesPlayed))
    ELSE Num(0)

\* pointsFor - pointsAgainst of the target over the counted matches
StatsPointDiff(results, targetId) ==
    SeqSum([i \in DOMAIN results |->
              LET totals == totalsByMatch[results[i].matchId]
                  isSideA == resolvePlayerSide(MatchById(results[i].matchId), targetId) = "A"
              IN  IF isSideA THEN totals.sideAPoints - totals.sideBPoints
                  ELSE totals.sideBPoints - totals.sideAPoints])

\* every ratio the two pages hold once the statistics are computed, with the
\* denominator it was computed from
RatioStatistics ==
    { [name |-> "winPct", denominator |-> stats.matchesPlayed,
       value |-> PlayerProfile_winPct(stats.matchesPlayed, stats.wins)],
      [name |-> "avgPointDiffPerMatch", denominator |-> stats.matchesPlayed,
       value |-> PlayerProfile_average(StatsPointDiff(stats.results, playerId),
                                       stats.matchesPlayed)] }
    \cup { [name |-> "leaderboard winPct", denominator |-> rows[p].matchesPlayed,
            value |-> Leaderboard_winPct(rows[p])] : p \in DOMAIN rows }

\* C19: every ratio statistic whose denominator is zero, in particular the
\* win percentage with zero matches played, yields the explicit "undefined"
\* sentinel rather than a number or an arithmetic error.
C19_ZeroDenominatorGivesSentinel ==
    pc = "done" =>
        \A ratio \in RatioStatistics : ratio.denominator = 0 => ratio.value = NumberNaN

\* what the code does instead: a zero denominator never divides; the averages
\* give NaN and the win percentages give the number 0
C19_ZeroDenominatorGivesNaNOrZero ==
    pc = "done" =>
        \A ratio \in RatioStatistics :
            ratio.denominator = 0 =>
                ratio.value = (IF ratio.name = "avgPointDiffPerMatch"
                               THEN NumberNaN ELSE Num(0))

-----------------------------------------------------------------------------
(* C20: an internally inconsistent rating configuration (for example a       *)
(* rating floor above the seeded baseline) is rejected once at configuration *)
(* time, so no replay ever runs under such a configuration.                  *)

\* a replay is running or has produced output
ReplayHasRun == pc \notin {"totals", "seed"}

C20_NoReplayUnderInconsistentConfig ==
    ReplayHasRun => eloConfig.floor <= eloConfig.baseline

-----------------------------------------------------------------------------
(* src/pages/SubmitMatchPage.vue and the edit dialog of                      *)
(* src/pages/MatchesPage.vue: the score sheet and its validation.  The user  *)
(* is a signed-in player, not an administrator, whose profile is player 1;   *)
(* the match is a singles match.                                             *)

\* the replay engine and the store are not in use
EngineIdle ==
    /\ env = EnvUnset
    /\ matches = <<>>
    /\ games = <<>>
    /\ seedPlayerIds = <<>>
    /\ pc = "idle"
    /\ totalsByMatch = EmptyMap
    /\ states = EmptyMap
    /\ orderedMatches = <<>>
    /\ idx = 0
    /\ ratings = EmptyMap
    /\ entries = <<>>
    /\ rows = EmptyMap
    /\ playerId = 0
    /\ deltas = EmptyMap
    /\ stats = EmptyMap
    /\ dbMatches = {}
    /\ dbGames = {}
    /\ calls = <<>>

gamesByFormat == [bo1 |-> 1, bo3 |-> 3, bo5 |-> 5, bo7 |-> 7]

neededWins(gameCount) == (gameCount \div 2) + 1

\* what a score cell holds: null, a whole number, or the raw text typed
CellNull == [kind |-> "null", val |-> 0]

CellText == [kind |-> "text", val |-> 0]

CellNumber(n) == [kind |-> "num", val |-> n]

buildGameRow == [sideAScore |-> CellNull, sideBScore |-> CellNull]

\* what the user types into a cell: nothing, text that is no number, or a
\* number given in half points
TypedInputs ==
    { [kind |-> "empty", halves |-> 0], [kind |-> "text", halves |-> 0] }
    \cup { [kind |-> "num", halves |-> h] : h \in {18, 22, 23, 24} }

\* the valueSetter of a score column: trim, null when empty, Math.floor of a
\* finite number, the raw text otherwise
valueSetter(typed) ==
    IF typed.kind = "empty" THEN CellNull
    ELSE IF typed.kind = "text" THEN CellText
    ELSE CellNumber(typed.halves \div 2)

\* parseScore: null, 'invalid', or Math.floor of the number (a cell number is
\* whole already)
parseScore(value) ==
    IF value.kind = "null" THEN [kind |-> "null", val |-> 0]
    ELSE IF value.kind = "text" THEN [kind |-> "invalid", val |-> 0]
    ELSE [kind |-> "num", val |-> value.val]

\* rowData.slice(0, count) filled up with empty rows
syncGameRows(rowData, count) ==
    [i \in 1..count |-> IF i <= Len(rowData) THEN rowData[i] ELSE buildGameRow]

\* the rows of the edit dialog for the stored games of a match
hydrateEditRows(count, gameRows) ==
    [i \in 1..count |->
       IF \E k \in DOMAIN gameRows : gameRows[k].game_number = i
       THEN LET game == gameRows[CHOOSE k \in DOMAIN gameRows : gameRows[k].game_number = i]
            IN  [sideAScore |-> CellNumber(game.side_a_score),
                 sideBScore |-> CellNumber(game.side_b_score)]
       ELSE buildGameRow]

\* the locals of the validation loop before game 1
ScanStart ==
    [errors |-> {}, games |-> <<>>, wins1 |-> 0, wins2 |-> 0,
     matchDecided |-> FALSE, foundGap |-> FALSE]

\* one iteration of the validation loop, for game i
ScanGame(scan, i, row, needed) ==
    LET score1 == parseScore(row.sideAScore)
        score2 == parseScore(row.sideBScore)
        score1Empty == score1.kind = "null"
        score2Empty == score2.kind = "null"
        Reject(kind) == [scan EXCEPT !.errors = @ \cup {<<kind, i>>}]
    IN  IF score1Empty /\ score2Empty
        THEN (IF Len(scan.games) > 0 THEN [scan EXCEPT !.foundGap = TRUE] ELSE scan)
        ELSE IF scan.foundGap THEN Reject("filled after a blank game")
        ELSE IF score1Empty \/ score2Empty THEN Reject("must include both scores")
        ELSE IF score1.kind = "invalid" \/ score2.kind = "invalid"
        THEN Reject("scores must be numbers")
        ELSE IF score1.val < 0 \/ score2.val < 0 THEN Reject("must be non-negative")
        ELSE IF score1.val = score2.val THEN Reject("cannot be tied")
        ELSE IF scan.matchDecided THEN Reject("played after the match was decided")
        ELSE IF Max(score1.val, score2.val) < 11 THEN Reject("winner must reach 11")
        ELSE IF Abs(score1.val - score2.val) < 2 THEN Reject("must be won by 2")
        ELSE
        LET wins1 == IF score1.val > score2.val THEN scan.wins1 + 1 ELSE scan.wins1
            wins2 == IF score1.val > score2.val THEN scan.wins2 ELSE scan.wins2 + 1
        IN  [scan EXCEPT
               !.games = Append(@, [game_number |-> i, side_a_score |-> score1.val,
                                    side_b_score |-> score2.val]),
               !.wins1 = wins1,
               !.wins2 = wins2,
               !.matchDecided = wins1 >= needed \/ wins2 >= needed]

\* the validation loop from game i to the last game
RECURSIVE ScanGames(_, _, _, _)
ScanGames(scan, i, rowData, gameCount) ==
    IF i > gameCount THEN scan
    ELSE ScanGames(ScanGame(scan, i,
                            IF i <= Len(rowData) THEN rowData[i] ELSE buildGameRow,
                            neededWins(gameCount)),
                   i + 1, rowData, gameCount)

\* the loop and the two checks after it
ValidateGames(rowData, gameCount) ==
    LET scan == ScanGames(ScanStart, 1, rowData, gameCount)
        needed == neededWins(gameCount)
    IN  [errors |-> scan.errors
                    \cup (IF Len(scan.games) = 0 THEN {<<"at least one game", 0>>} ELSE {})
                    \cup (IF scan.wins1 < needed /\ scan.wins2 < needed
                          THEN {<<"match is incomplete", 0>>} ELSE {}),
         games |-> scan.games]

\* the checks of the date and of the players of a singles match ('' is 0)
ValidatePlayers(f) ==
    (IF f.matchDate = "" THEN {<<"date is required", 0>>} ELSE {})
    \cup (IF f.teamAPlayer1Id = 0 THEN {<<"team A player 1 is required", 0>>} ELSE {})
    \cup (IF f.teamBPlayer1Id = 0 THEN {<<"team B player 1 is required", 0>>} ELSE {})
    \cup (IF /\ f.teamAPlayer1Id # 0
             /\ f.teamAPlayer1Id = f.teamBPlayer1Id
          THEN {<<"players must be unique", 0>>} ELSE {})

validateMatch(f) ==
    LET sheet == ValidateGames(f.rowData, gamesByFormat[f.matchFormat])
    IN  [errors |-> ValidatePlayers(f)
                    \cup (IF f.teamAPlayer1Id # f.profileId
                          THEN {<<"team A player 1 must be your profile", 0>>} ELSE {})
                    \cup sheet.errors,
         games |-> sheet.games]

\* the edit dialog of an active match the user played: players and date are
\* those of the match
validateEditMatch(f) ==
    LET sheet == ValidateGames(f.rowData, gamesByFormat[f.matchFormat])
    IN  [errors |-> ValidatePlayers(f) \cup sheet.errors,
         games |-> sheet.games]

\* the formats the form is switched between
FormFormats == {"bo1", "bo3"}

\* the stored games of the match the edit dialog is opened on
EditedGames ==
    << [game_number |-> 1, side_a_score |-> 11, side_b_score |-> 9],
       [game_number |-> 2, side_a_score |-> 9, side_b_score |-> 11],
       [game_number |-> 3, side_a_score |-> 12, side_b_score |-> 9] >>

\* the submit page after resetForm, for the player whose profile is player 1
SubmitFormReset ==
    [mounted |-> TRUE, view |-> "submit", open |-> TRUE, profileId |-> 1,
     matchDate |-> "today", matchFormat |-> "bo3",
     rowData |-> syncGameRows(<<>>, gamesByFormat["bo3"]),
     teamAPlayer1Id |-> 1, teamBPlayer1Id |-> 0,
     validationErrors |-> {}, submitting |-> FALSE, sent |-> <<>>]

\* the edit dialog once the games of the match are loaded
EditDialogOpened ==
    [mounted |-> TRUE, view |-> "edit", open |-> TRUE, profileId |-> 1,
     matchDate |-> "today", matchFormat |-> "bo3",
     rowData |-> hydrateEditRows(gamesByFormat["bo3"], EditedGames),
     teamAPlayer1Id |-> 1, teamBPlayer1Id |-> 2,
     validationErrors |-> {}, submitting |-> FALSE, sent |-> <<>>]

InitForm ==
    /\ EngineIdle
    /\ form \in {SubmitFormReset, EditDialogOpened}
    /\ auth = Idle
    /\ page = Idle

FormEditable == form.mounted /\ form.open /\ ~form.submitting

\* the user types into one score cell: valueSetter, then the cell-value-changed
\* handler clears the errors shown
EditCell ==
    /\ FormEditable
    /\ \E i \in DOMAIN form.rowData, typed \in TypedInputs :
         \/ form' = [form EXCEPT !.rowData[i].sideAScore = valueSetter(typed),
                                 !.validationErrors = {}]
         \/ form' = [form EXCEPT !.rowData[i].sideBScore = valueSetter(typed),
                                 !.validationErrors = {}]
    /\ UNCHANGED <<engineVars, auth, page>>

\* the watcher of the match format
SelectFormat ==
    /\ FormEditable
    /\ \E next \in FormFormats \ {form.matchFormat} :
         form' = [form EXCEPT !.matchFormat = next,
                              !.rowData = syncGameRows(@, gamesByFormat[next]),
                              !.validationErrors = {}]
    /\ UNCHANGED <<engineVars, auth, page>>

\* the opponent select of the submit page
SelectOpponent ==
    /\ FormEditable
    /\ form.view = "submit"
    /\ \E id \in {0, 2} \ {form.teamBPlayer1Id} :
         form' = [form EXCEPT !.teamBPlayer1Id = id]
    /\ UNCHANGED <<engineVars, auth, page>>

\* handleSubmit up to the createMatch request
HandleSubmit ==
    /\ FormEditable
    /\ form.view = "submit"
    /\ LET checked == validateMatch(form)
       IN  IF checked.errors # {}
           THEN form' = [form EXCEPT !.validationErrors = checked.errors]
           ELSE form' = [form EXCEPT !.validationErrors = {},
                                     !.submitting = TRUE,
                                     !.sent = <<[matchFormat |-> form.matchFormat,
                                                 games |-> checked.games]>>]
    /\ UNCHANGED <<engineVars, auth, page>>

\* handleSubmit after the request: an error keeps the form, success resets it
CreateMatchReturns ==
    /\ form.mounted
    /\ form.view = "submit"
    /\ form.submitting
    /\ \/ form' = [form EXCEPT !.submitting = FALSE, !.sent = <<>>]
       \/ form' = SubmitFormReset
    /\ UNCHANGED <<engineVars, auth, page>>

\* the save handler of the edit dialog up to the updateMatch request
HandleSave ==
    /\ FormEditable
    /\ form.view = "edit"
    /\ LET checked == validateEditMatch(form)
       IN  IF checked.errors # {}
           THEN form' = [form EXCEPT !.validationErrors = checked.errors]
           ELSE form' = [form EXCEPT !.validationErrors = {},
                                     !.submitting = TRUE,
                                     !.sent = <<[matchFormat |-> form.matchFormat,
                                                 games |-> checked.games]>>]
    /\ UNCHANGED <<engineVars, auth, page>>

\* the save handler after the request: an error keeps the dialog, success
\* closes it
UpdateMatchReturns ==
    /\ form.mounted
    /\ form.view = "edit"
    /\ form.submitting
    /\ \/ form' = [form EXCEPT !.submitting = FALSE, !.sent = <<>>]
       \/ form' = [EditDialogOpened EXCEPT !.open = FALSE]
    /\ UNCHANGED <<engineVars, auth, page>>

\* the dialog is opened on the match again
OpenMatchDialog ==
    /\ form.mounted
    /\ form.view = "edit"
    /\ ~form.open
    /\ form' = EditDialogOpened
    /\ UNCHANGED <<engineVars, auth, page>>

NextForm ==
    \/ EditCell
    \/ SelectFormat
    \/ SelectOpponent
    \/ HandleSubmit
    \/ CreateMatchReturns
    \/ HandleSave
    \/ UpdateMatchReturns
    \/ OpenMatchDialog

SpecForm == InitForm /\ [][NextForm]_vars

-----------------------------------------------------------------------------
(* C21: client-side validation on submit and on edit accepts a score sheet   *)
(* only if games are entered contiguously from game 1, every entered game    *)
(* has a winner with at least 11 points and a margin of at least 2, no game  *)
(* is entered after a side has reached floor(N/2)+1 game wins, and exactly   *)
(* one side has reached floor(N/2)+1 wins in a best-of-N; hence no accepted  *)
(* match has equal game wins for the two sides.                              *)

\* the games side A (side B) won among the first k games sent
SentWinsA(sentGames, k) ==
    Cardinality({ j \in 1..k : sentGames[j].side_a_score > sentGames[j].side_b_score })

SentWinsB(sentGames, k) ==
    Cardinality({ j \in 1..k : sentGames[j].side_b_score > sentGames[j].side_a_score })

\* the sheet without its position on the form: every game is won 11 or more
\* with a margin of 2, none follows the deciding game, one side has the wins
SentGamesAreOneDecidedMatch(request) ==
    LET sentGames == request.games
        needed == neededWins(gamesByFormat[request.matchFormat])
        last == Len(sentGames)
    IN  /\ \A k \in DOMAIN sentGames :
              /\ Max(sentGames[k].side_a_score, sentGames[k].side_b_score) >= 11
              /\ Abs(sentGames[k].side_a_score - sentGames[k].side_b_score) >= 2
        /\ \A k \in 1..(last - 1) :
              SentWinsA(sentGames, k) < needed /\ SentWinsB(sentGames, k) < needed
        /\ (SentWinsA(sentGames, last) >= needed) # (SentWinsB(sentGames, last) >= needed)
        /\ SentWinsA(sentGames, last) # SentWinsB(sentGames, last)

SentFromGameOne(request) ==
    \A k \in DOMAIN request.games : request.games[k].game_number = k

C21_AcceptedSheetIsContiguousDecidedMatch ==
    (form.mounted /\ form.sent # <<>>) =>
        /\ SentFromGameOne(form.sent[1])
        /\ SentGamesAreOneDecidedMatch(form.sent[1])

\* the part of C21 that holds: whatever rows the games are entered in
C21_AcceptedSheetIsDecidedMatch ==
    (form.mounted /\ form.sent # <<>>) => SentGamesAreOneDecidedMatch(form.sent[1])

-----------------------------------------------------------------------------
(* C22: the streak statistics come from one scan of the target's decided     *)
(* match outcomes in canonical chronological order that resets the run       *)
(* counter whenever the outcome type changes.  The current streak is the     *)
(* maximal run of equal outcomes ending at the target's last decided match,  *)
(* the longest win (loss) streak is the maximum length of any run of wins    *)
(* (losses), and the current streak never exceeds the longest streak of its  *)
(* type.                                                                     *)

\* the length of the maximal run of equal outcomes that ends at position k
RunEndingAt(results, k) ==
    LET breaks == { j \in 1..(k - 1) : results[j].outcome # results[k].outcome }
    IN  IF breaks = {} THEN k
        ELSE k - (CHOOSE j \in breaks : \A other \in breaks : other <= j)

\* the length of the longest run of the given outcome, 0 when there is none
LongestRunOf(results, outcome) ==
    LET lengths == { RunEndingAt(results, k) :
                       k \in { j \in DOMAIN results : results[j].outcome = outcome } }
    IN  IF lengths = {} THEN 0
        ELSE CHOOSE n \in lengths : \A other \in lengths : other <= n

\* the scanned results are the target's decided matches in canonical order
ResultsAreDecidedMatchesInOrder ==
    /\ { stats.results[k].matchId : k \in DOMAIN stats.results }
         = { matches[i].id : i \in { j \in DOMAIN matches :
                                       /\ Decided(matches[j])
                                       /\ playerId \in Members(matches[j]) } }
    /\ \A j \in DOMAIN stats.results, k \in DOMAIN stats.results :
          j < k => Before(MatchById(stats.results[j].matchId),
                          MatchById(stats.results[k].matchId))

C22_StreaksAreRunsOfOutcomes ==
    pc = "done" =>
        LET results == stats.results
            last == Len(results)
        IN  /\ ResultsAreDecidedMatchesInOrder
            /\ IF last = 0
               THEN stats.currentStreakType = "none" /\ stats.currentStreakCount = 0
               ELSE /\ stats.currentStreakType = results[last].outcome
                    /\ stats.currentStreakCount = RunEndingAt(results, last)
            /\ stats.longestWinStreak = LongestRunOf(results, "W")
            /\ stats.longestLossStreak = LongestRunOf(results, "L")
            /\ stats.currentStreakType = "W" =>
                  stats.currentStreakCount <= stats.longestWinStreak
            /\ stats.currentStreakType = "L" =>
                  stats.currentStreakCount <= stats.longestLossStreak

\* three decided matches of the target: a loss after two wins, the two wins
\* being the longest streak and the loss the current one
C22_Witness ==
    /\ pc = "done"
    /\ Len(stats.results) = 3
    /\ stats.results[1].outcome = "W"
    /\ stats.results[2].outcome = "W"
    /\ stats.results[3].outcome = "L"
    /\ stats.currentStreakType = "L"
    /\ stats.currentStreakCount = 1
    /\ stats.longestWinStreak = 2

-----------------------------------------------------------------------------
(* The profile statistics of player 1 over a history of singles meetings     *)
(* with two opponents.                                                       *)

MaxMeetings == 6

Opponents == {2, 3}

\* the k-th meeting: a best-of-1 singles match of player 1 on day k
MeetingRow(k, opponent) ==
    [id |-> k, match_type |-> "singles", match_format |-> "bo1",
     match_date |-> k, created_at |-> 1,
     team_a |-> <<1>>, team_b |-> <<opponent>>]

MeetingGame(k, won) ==
    [match_id |-> k, game_number |-> 1,
     side_a_score |-> IF won THEN 11 ELSE 5,
     side_b_score |-> IF won THEN 5 ELSE 11]

InitMatchups ==
    /\ env = EnvUnset
    /\ \E n \in 0..MaxMeetings :
         \E plan \in [1..n -> Opponents \X BOOLEAN] :
            /\ matches = [k \in 1..n |-> MeetingRow(k, plan[k][1])]
            /\ games = [k \in 1..n |-> MeetingGame(k, plan[k][2])]
    /\ totalsByMatch = buildMatchGameTotals(matches, games)
    /\ seedPlayerIds = <<>>
    /\ states = EmptyMap
    /\ orderedMatches = <<>>
    /\ idx = 0
    /\ pc = "stats"
    /\ ratings = EmptyMap
    /\ entries = <<>>
    /\ rows = EmptyMap
    /\ playerId = 1
    /\ deltas = EmptyMap
    /\ stats = EmptyMap
    /\ dbMatches = {}
    /\ dbGames = {}
    /\ calls = <<>>
    /\ PagesIdle

NextMatchups == ProfileStats

SpecMatchups == InitMatchups /\ [][NextMatchups]_vars

-----------------------------------------------------------------------------
(* C23: the best (worst) opponent is the opponent with the highest (lowest)  *)
(* win percentage among opponents met at least the configured minimum number *)
(* of times, with ties broken by higher match count and then by identifier;  *)
(* an opponent met fewer times than the minimum is never reported, and the   *)
(* choice does not depend on the order of the input matches.                 *)

MeetingsWith(opponent) ==
    { i \in DOMAIN matches :
        /\ Decided(matches[i])
        /\ playerId \in Members(matches[i])
        /\ opponent \in Members(matches[i])
        /\ opponent # playerId }

WinsOver(opponent) ==
    { i \in MeetingsWith(opponent) :
        LET totals == totalsByMatch[matches[i].id]
        IN  IF resolvePlayerSide(matches[i], playerId) = "A"
            THEN totals.sideAWins > totals.sideBWins
            ELSE totals.sideBWins > totals.sideAWins }

EligibleOpponents ==
    { o \in SeqToSet(AllPlayers) :
        Cardinality(MeetingsWith(o)) >= MIN_MATCHES_FOR_MATCHUP }

\* a has the higher win percentage than b, compared as fractions
HigherWinPct(a, b) ==
    Cardinality(WinsOver(a)) * Cardinality(MeetingsWith(b))
      > Cardinality(WinsOver(b)) * Cardinality(MeetingsWith(a))

\* a comes before b as best opponent: win percentage, then match count, then
\* identifier
BetterOpponent(a, b) ==
    \/ HigherWinPct(a, b)
    \/ /\ ~HigherWinPct(b, a)
       /\ \/ Cardinality(MeetingsWith(a)) > Cardinality(MeetingsWith(b))
          \/ /\ Cardinality(MeetingsWith(a)) = Cardinality(MeetingsWith(b))
             /\ a < b

WorseOpponent(a, b) ==
    \/ HigherWinPct(b, a)
    \/ /\ ~HigherWinPct(a, b)
       /\ \/ Cardinality(MeetingsWith(a)) > Cardinality(MeetingsWith(b))
          \/ /\ Cardinality(MeetingsWith(a)) = Cardinality(MeetingsWith(b))
             /\ a < b

\* the opponent a reported summary names, 0 when none is reported
ReportedOpponent(reported) == IF reported = NoOpponent THEN 0 ELSE reported[1].id[1]

C23_BestAndWorstOpponent ==
    pc = "done" =>
        LET best == ReportedOpponent(stats.bestOpponent)
            worst == ReportedOpponent(stats.worstOpponent)
            reversed == PlayerStats(Reverse(matches), Reverse(games), playerId)
        IN  /\ best \in EligibleOpponents \cup {0}
            /\ worst \in EligibleOpponents \cup {0}
            /\ EligibleOpponents # {} =>
                  /\ best # 0
                  /\ \A o \in EligibleOpponents \ {best} : BetterOpponent(best, o)
                  /\ worst # 0
                  /\ \A o \in EligibleOpponents \ {worst} : WorseOpponent(worst, o)
            /\ reversed.bestOpponent = stats.bestOpponent
            /\ reversed.worstOpponent = stats.worstOpponent

\* what holds instead: ties are broken by the label, and the worst opponent
\* is chosen among the eligible opponents other than the best one
C23_BestByLabelWorstAmongOthers ==
    pc = "done" =>
        LET best == ReportedOpponent(stats.bestOpponent)
            worst == ReportedOpponent(stats.worstOpponent)
            reversed == PlayerStats(Reverse(matches), Reverse(games), playerId)
            ByLabel(a, b) == PlayerLabelRank[a] < PlayerLabelRank[b]
            SameRank(a, b) ==
                /\ ~HigherWinPct(a, b)
                /\ ~HigherWinPct(b, a)
                /\ Cardinality(MeetingsWith(a)) = Cardinality(MeetingsWith(b))
        IN  /\ best \in EligibleOpponents \cup {0}
            /\ worst \in (EligibleOpponents \ {best}) \cup {0}
            /\ (best = 0) = (EligibleOpponents = {})
            /\ (worst = 0) = (EligibleOpponents \ {best} = {})
            /\ \A o \in EligibleOpponents \ {best} :
                  IF SameRank(best, o) THEN ByLabel(best, o) ELSE BetterOpponent(best, o)
            /\ worst # 0 =>
                  \A o \in EligibleOpponents \ {best, worst} :
                     IF SameRank(worst, o) THEN ByLabel(worst, o)
                     ELSE WorseOpponent(worst, o)
            /\ reversed.bestOpponent = stats.bestOpponent
            /\ reversed.worstOpponent = stats.worstOpponent

-----------------------------------------------------------------------------
(* C24: a decided match counts as a comeback win exactly when the target won *)
(* the match but lost its first game (lowest game number), and as a blown    *)
(* lead exactly when the target lost the match but won its first game; so    *)
(* comeback wins never exceed wins minus straight-game wins, and blown leads *)
(* never exceed losses.                                                      *)

\* the target's points minus the opponent's in the match's game with the
\* lowest game number
FirstGameMargin(id) ==
    LET own == { games[k] : k \in { j \in DOMAIN games : games[j].match_id = id } }
        first == CHOOSE g \in own : \A other \in own : g.game_number <= other.game_number
    IN  IF resolvePlayerSide(MatchById(id), playerId) = "A"
        THEN first.side_a_score - first.side_b_score
        ELSE first.side_b_score - first.side_a_score

C24_ComebacksAndBlownLeads ==
    pc = "done" =>
        /\ stats.comebackWins =
             Cardinality({ k \in DOMAIN stats.results :
                             /\ stats.results[k].outcome = "W"
                             /\ FirstGameMargin(stats.results[k].matchId) < 0 })
        /\ stats.blownLeads =
             Cardinality({ k \in DOMAIN stats.results :
                             /\ stats.results[k].outcome = "L"
                             /\ FirstGameMargin(stats.results[k].matchId) > 0 })
        /\ stats.comebackWins <= stats.wins - stats.straightGameWins
        /\ stats.blownLeads <= stats.losses

\* the target has a straight-games win beside a comeback win
C24_Witness ==
    /\ pc = "done"
    /\ playerId = 1
    /\ stats.straightGameWins >= 1
    /\ stats.comebackWins = 1
    /\ stats.wins > stats.comebackWins

\* the target lost a match after winning its first game
C24_BlownLeadReached ==
    /\ pc = "done"
    /\ stats.blownLeads = 1
    /\ stats.losses >= 1

-----------------------------------------------------------------------------
(* C25: every decided match is classified as a win for exactly one side: a   *)
(* match counted as a win for the members of one side is counted as a loss   *)
(* for the members of the other side, and the player-profile statistics and  *)
(* the match-history view give the same Win/Loss label to the same match for *)
(* the same player.                                                          *)

\* the outcome the profile statistics record for `match` when `p` is the target
StatsOutcome(match, p) == StatsResults(<<match>>, totalsByMatch, p)[1].outcome

\* the label the match-history view shows for `match` when `p` is the target
HistoryOutcome(match, p) == matchOutcome(match, totalsByMatch, p)

OneSideWins(match) ==
    \A a \in SeqToSet(match.team_a), b \in SeqToSet(match.team_b) :
        /\ StatsOutcome(match, a) = "W" <=> StatsOutcome(match, b) = "L"
        /\ StatsOutcome(match, a) = "L" <=> StatsOutcome(match, b) = "W"
        /\ HistoryOutcome(match, a) = "Win" <=> HistoryOutcome(match, b) = "Loss"

ViewsAgree(match) ==
    \A p \in Members(match) :
        /\ StatsOutcome(match, p) = "W" <=> HistoryOutcome(match, p) = "Win"
        /\ StatsOutcome(match, p) = "L" <=> HistoryOutcome(match, p) = "Loss"

C25_ExactlyOneSideWinsInEveryView ==
    pc = "done" =>
        \A i \in DOMAIN matches :
            Decided(matches[i]) => OneSideWins(matches[i]) /\ ViewsAgree(matches[i])

\* what the code does guarantee: when the two sides' games won differ, one
\* side wins in both views and the other loses in both
C25_UnequalGamesWonGiveOneWinner ==
    pc = "done" =>
        \A i \in DOMAIN matches :
            (/\ Decided(matches[i])
             /\ totalsByMatch[matches[i].id].sideAWins # totalsByMatch[matches[i].id].sideBWins)
            => OneSideWins(matches[i]) /\ ViewsAgree(matches[i])

-----------------------------------------------------------------------------
(* C26: in a decided match the two sides' deltas are exact opposites, so     *)
(* when both rosters have the same size and no rating is clamped at the      *)
(* floor the sum of all players' ratings is unchanged; throughout a replay   *)
(* in which the floor never binds, the sum of ratings equals the baseline    *)
(* times the number of players holding a rating state.                       *)

RatingSum(st) ==
    LET holders == SetToSeq(DOMAIN st)
    IN  SeqSum([i \in DOMAIN holders |-> st[holders[i]].rating])

\* the rating a player enters a match with: its state, or the baseline a new
\* state is created with
PreRating(p) == IF p \in DOMAIN states THEN states[p].rating ELSE eloConfig.baseline

\* a rating above the floor was not produced by the clamp
AboveFloor(st, ps) == \A p \in ps : st[p].rating > eloConfig.floor

\* the states after the first k matches of the replay order
StatesAfter(k) ==
    RatingsReplay(EnsureAll(EmptyMap, seedPlayerIds), SubSeq(orderedMatches, 1, k),
                  totalsByMatch)

FloorNeverBound ==
    \A k \in 1..(idx - 1) :
        LET after == StatesAfter(k) IN AboveFloor(after, DOMAIN after)

-----------------------------------------------------------------------------
(* The auth store: the session, the profile of the signed-in user and the    *)
(* profile loads in flight.  Every action is the code that runs between two  *)
(* awaits; a request in flight is a member of auth.inflight until its        *)
(* response is handled.                                                      *)

\* the auth users that sign in
AuthUsers == {1, 2}

\* null for a session, a profile, a cached profile id or a timeout handle
Null == 0

\* most profile loads started in one run
MaxLoads == 3

\* the id column of the profiles row whose auth_user_id is `authUserId`
ProfileIdOf(authUserId) == 10 + authUserId

\* what the profiles query resolves to: a row, no row, or an error
ProfileResponses == {"row", "none", "error"}

clearScheduledProfileLoad(a) == [a EXCEPT !.scheduledProfileLoadTimeout = Null]

scheduleProfileLoad(a, authUser) ==
    [clearScheduledProfileLoad(a) EXCEPT !.scheduledProfileLoadTimeout = authUser]

\* loadProfile up to its await; `awaited` marks the load initAuth waits for
loadProfile(a, authUser, awaited) ==
    [a EXCEPT !.profileLoadCounter = @ + 1,
              !.profileLoading = TRUE,
              !.profileError = "",
              !.inflight = @ \cup {[loadId |-> a.profileLoadCounter + 1,
                                    authUser |-> authUser,
                                    awaited |-> awaited]}]

\* faulty variant: the response is not checked against the session's user
loadProfileResumes_AnySession(a, load, response) ==
    IF load.loadId # a.profileLoadCounter THEN a
    ELSE IF response = "error"
    THEN [a EXCEPT !.profileError = "error", !.profileLoading = FALSE]
    ELSE IF response = "none"
    THEN [a EXCEPT !.profile = Null, !.profileError = "missing", !.profileLoading = FALSE]
    ELSE [a EXCEPT !.profile = ProfileIdOf(load.authUser),
                   !.cachedProfileId = ProfileIdOf(load.authUser),
                   !.localStorage[load.authUser] = ProfileIdOf(load.authUser),
                   !.profileLoading = FALSE]

\* faulty variant: a failed query leaves profileLoading as it is
loadProfileResumes_ErrorKeepsLoading(a, load, response) ==
    IF load.loadId # a.profileLoadCounter THEN a
    ELSE IF a.session # load.authUser THEN [a EXCEPT !.profileLoading = FALSE]
    ELSE IF response = "error"
    THEN [a EXCEPT !.profileError = "error"]
    ELSE IF response = "none"
    THEN [a EXCEPT !.profile = Null, !.profileError = "missing", !.profileLoading = FALSE]
    ELSE [a EXCEPT !.profile = ProfileIdOf(load.authUser),
                   !.cachedProfileId = ProfileIdOf(load.authUser),
                   !.localStorage[load.authUser] = ProfileIdOf(load.authUser),
                   !.profileLoading = FALSE]

\* loadProfile after its await
loadProfileResumes(a, load, response) ==
    IF load.loadId # a.profileLoadCounter THEN a
    ELSE IF a.session # load.authUser THEN [a EXCEPT !.profileLoading = FALSE]
    ELSE IF response = "error"
    THEN [a EXCEPT !.profileError = "error", !.profileLoading = FALSE]
    ELSE IF response = "none"
    THEN [a EXCEPT !.profile = Null, !.profileError = "missing", !.profileLoading = FALSE]
    ELSE [a EXCEPT !.profile = ProfileIdOf(load.authUser),
                   !.cachedProfileId = ProfileIdOf(load.authUser),
                   !.localStorage[load.authUser] = ProfileIdOf(load.authUser),
                   !.profileLoading = FALSE]

\* the branch taken when there is no signed-in user
clearProfile(a) ==
    [clearScheduledProfileLoad(a) EXCEPT !.profile = Null,
                                         !.profileError = "",
                                         !.cachedProfileId = Null,
                                         !.profileLoading = FALSE]

\* the end of initAuth: authLoading off and the auth listener subscribed
initAuthFinishes(a) ==
    [a EXCEPT !.authLoading = FALSE, !.authSubscription = TRUE, !.initAwait = "done"]

\* the callback given to onAuthStateChange
onAuthStateChange(a, nextSession) ==
    LET previousAuthUserId == a.session
        withSession == [a EXCEPT !.session = nextSession]
    IN  IF nextSession # Null
        THEN LET cached == [withSession EXCEPT
                               !.cachedProfileId = a.localStorage[nextSession]]
                 reset == IF previousAuthUserId # nextSession
                          THEN [cached EXCEPT !.profile = Null,
                                              !.profileError = "",
                                              !.profileLoading = FALSE]
                          ELSE cached
                 scheduled == IF reset.profile = Null /\ ~reset.profileLoading
                              THEN scheduleProfileLoad(reset, nextSession)
                              ELSE reset
             IN  [scheduled EXCEPT !.authLoading = FALSE]
        ELSE [clearProfile(withSession) EXCEPT !.authLoading = FALSE]

\* the store when the module has been evaluated; localStorage may hold the
\* profile id cached by an earlier visit
AuthStoreCreated ==
    { [mounted |-> TRUE,
       session |-> Null,
       profile |-> Null,
       cachedProfileId |-> Null,
       authLoading |-> TRUE,
       profileLoading |-> FALSE,
       profileError |-> "",
       initAwait |-> "none",
       authSubscription |-> FALSE,
       scheduledProfileLoadTimeout |-> Null,
       profileLoadCounter |-> 0,
       signingOut |-> FALSE,
       inflight |-> {},
       localStorage |-> [u \in AuthUsers |-> IF u \in known THEN ProfileIdOf(u) ELSE Null]] :
      known \in {{}, {1}} }

InitAuth ==
    /\ EngineIdle
    /\ form = Idle
    /\ auth \in AuthStoreCreated
    /\ page = Idle

\* initAuth up to the await of getSession; a second call returns initPromise
InitAuthCalled ==
    /\ auth.mounted
    /\ auth.initAwait = "none"
    /\ auth' = [auth EXCEPT !.authLoading = TRUE, !.initAwait = "getSession"]
    /\ UNCHANGED <<engineVars, form, page>>

\* initAuth from the answer of getSession to its next await, or to its end
GetSessionReturns ==
    /\ auth.mounted
    /\ auth.initAwait = "getSession"
    /\ \E restored \in AuthUsers \cup {Null} :
         LET withSession == [auth EXCEPT !.session = restored]
         IN  IF restored # Null
             THEN /\ auth.profileLoadCounter < MaxLoads
                  /\ auth' = loadProfile(
                        [withSession EXCEPT !.cachedProfileId = auth.localStorage[restored],
                                            !.initAwait = "loadProfile"],
                        restored, TRUE)
             ELSE auth' = initAuthFinishes(clearProfile(withSession))
    /\ UNCHANGED <<engineVars, form, page>>

\* an auth event delivered to the subscribed listener
AuthStateChanges ==
    /\ auth.mounted
    /\ auth.authSubscription
    /\ \E nextSession \in AuthUsers \cup {Null} :
         auth' = onAuthStateChange(auth, nextSession)
    /\ UNCHANGED <<engineVars, form, page>>

\* the timeout set by scheduleProfileLoad fires
ScheduledLoadFires ==
    /\ auth.mounted
    /\ auth.scheduledProfileLoadTimeout # Null
    /\ auth.profileLoadCounter < MaxLoads
    /\ auth' = loadProfile([auth EXCEPT !.scheduledProfileLoadTimeout = Null],
                           auth.scheduledProfileLoadTimeout, FALSE)
    /\ UNCHANGED <<engineVars, form, page>>

\* the profiles query of one load answers; initAuth continues after its own
ProfileResponse ==
    /\ auth.mounted
    /\ \E load \in auth.inflight, response \in ProfileResponses :
         LET settled == loadProfileResumes([auth EXCEPT !.inflight = @ \ {load}],
                                           load, response)
         IN  auth' = IF load.awaited THEN initAuthFinishes(settled) ELSE settled
    /\ UNCHANGED <<engineVars, form, page>>

\* refreshProfile
RefreshProfile ==
    /\ auth.mounted
    /\ auth.session # Null
    /\ auth.profileLoadCounter < MaxLoads
    /\ auth' = loadProfile(auth, auth.session, FALSE)
    /\ UNCHANGED <<engineVars, form, page>>

\* signOut up to the await of the sign-out request
SignOutCalled ==
    /\ auth.mounted
    /\ ~auth.signingOut
    /\ auth' = [auth EXCEPT !.signingOut = TRUE]
    /\ UNCHANGED <<engineVars, form, page>>

\* signOut after the request
SignOutReturns ==
    /\ auth.mounted
    /\ auth.signingOut
    /\ auth' = [clearProfile([auth EXCEPT !.session = Null]) EXCEPT !.signingOut = FALSE]
    /\ UNCHANGED <<engineVars, form, page>>

NextAuth ==
    \/ InitAuthCalled
    \/ GetSessionReturns
    \/ AuthStateChanges
    \/ ScheduledLoadFires
    \/ ProfileResponse
    \/ RefreshProfile
    \/ SignOutCalled
    \/ SignOutReturns

SpecAuth == InitAuth /\ [][NextAuth]_vars

\* every query is answered and every timeout fires
SpecAuthFair ==
    /\ InitAuth
    /\ [][NextAuth]_vars
    /\ WF_vars(ProfileResponse)
    /\ WF_vars(ScheduledLoadFires)

-----------------------------------------------------------------------------
(* C27: under any interleaving of profile loads, auth-state-change events,   *)
(* refreshes and sign-out, the profile is non-null only while a session      *)
(* exists and only with the profile fetched for that session's user: a       *)
(* profile-load response that has been superseded by a newer load, or that   *)
(* arrives after sign-out or a change of user, never writes the profile.     *)

\* the response handled in this step belongs to `load`
Answers(load) == load \in auth.inflight /\ load \notin auth'.inflight

C27_ProfileBelongsToSession ==
    /\ [](auth.mounted =>
            (auth.profile # Null =>
               auth.session # Null /\ auth.profile = ProfileIdOf(auth.session)))
    /\ [][ \A load \in auth.inflight :
             (/\ Answers(load)
              /\ \/ load.loadId # auth.profileLoadCounter
                 \/ auth.session # load.authUser)
             => auth'.profile = auth.profile ]_vars

\* the session has moved from user 1 to user 2 while the load started for
\* user 1 is still the newest one in flight
C27_Witness ==
    /\ auth.mounted
    /\ auth.session = 2
    /\ \E load \in auth.inflight :
          load.authUser = 1 /\ load.loadId = auth.profileLoadCounter

\* user 2's profile is shown after a load for user 1 was answered late
C27_LateResponseDropped ==
    /\ auth.mounted
    /\ auth.session = 2
    /\ auth.profile = ProfileIdOf(2)
    /\ auth.profileLoadCounter = 2
    /\ auth.inflight = {}
    /\ auth.localStorage[1] = Null

-----------------------------------------------------------------------------
(* C28: once every started profile load has settled (with data, with an      *)
(* error, or superseded) and no further auth events occur, profileLoading is *)
(* false; and a signed-in session whose profile is still null is never left  *)
(* with profileLoading stuck true so that the auth-state-change handler      *)
(* skips scheduling a load forever.                                          *)

\* the handler of an auth event for the signed-in user would skip the load
HandlerSkipsLoad ==
    /\ auth.mounted
    /\ auth.session # Null
    /\ auth.profile = Null
    /\ auth.profileLoading

C28_ProfileLoadingEnds ==
    /\ []((auth.mounted /\ auth.inflight = {}) => ~auth.profileLoading)
    /\ (HandlerSkipsLoad ~> ~HandlerSkipsLoad)

\* a superseded load has been answered while the newer one is still awaited
C28_Witness ==
    /\ HandlerSkipsLoad
    /\ auth.profileLoadCounter = 2
    /\ auth.inflight = {[loadId |-> 2, authUser |-> auth.session, awaited |-> FALSE]}

-----------------------------------------------------------------------------
(* The match-history page and the player-profile page: what each shows, and  *)
(* the loads in flight.  A load is an async function; each of its awaits is  *)
(* a request in page.requests, and an action is the code that runs from one  *)
(* response to the next await or to the end of the function.  The viewer is  *)
(* signed in.                                                                *)

\* most loads the user starts after the page is mounted
MaxPageLoads == 2

\* the players whose pages are opened
RoutePlayers == {1, 2}

MatchModes == {"singles", "doubles"}

\* the date filter: 0 for the empty field, or the day the list starts from
DateFilters == {0, 2}

\* the active rows of match_team_rosters, ordered as the query orders them
ServerMatches ==
    LET row(id, type, day, a, b) ==
            [id |-> id, match_type |-> type, match_format |-> "bo1", match_date |-> day,
             created_at |-> id, team_a |-> a, team_b |-> b]
    IN  << row(1, "singles", 1, <<1>>, <<2>>),
           row(5, "doubles", 1, <<1, 3>>, <<2, 4>>),
           row(2, "singles", 2, <<2>>, <<1>>),
           row(4, "singles", 2, <<1>>, <<3>>),
           row(6, "doubles", 2, <<2, 4>>, <<1, 3>>),
           row(3, "singles", 3, <<1>>, <<2>>),
           row(7, "doubles", 3, <<1, 3>>, <<2, 4>>) >>

\* the active game rows: one game per match
ServerGames ==
    [i \in DOMAIN ServerMatches |->
       [match_id |-> ServerMatches[i].id, game_number |-> 1,
        side_a_score |-> IF ServerMatches[i].id \in {2, 6} THEN 5 ELSE 11,
        side_b_score |-> IF ServerMatches[i].id \in {2, 6} THEN 11 ELSE 5]]

isParticipant(match, player) ==
    /\ player # 0
    /\ player \in SeqToSet(match.team_a) \cup SeqToSet(match.team_b)

\* listMatches with the options the pages pass: player, matchType, dateFrom
\* (0 when the option is absent)
listMatchesWith(player, matchType, dateFrom) ==
    SelectSeq(ServerMatches,
              LAMBDA m : /\ m.match_type = matchType
                         /\ dateFrom # 0 => m.match_date >= dateFrom
                         /\ player # 0 => isParticipant(m, player))

\* listGamesByMatchIds for the identifiers of the given rows
listGamesOf(matchRows) ==
    SelectSeq(ServerGames, LAMBDA g : g.match_id \in {matchRows[i].id : i \in DOMAIN matchRows})

\* the request a load waits for; page.requests is the bag of those in flight
PageRequest(p, fn, at, player, matchType, dateFrom, matchRows) ==
    [p EXCEPT !.requests = @ (+) SetToBag({[fn |-> fn, at |-> at, playerId |-> player,
                                            matchType |-> matchType, dateFrom |-> dateFrom,
                                            rows |-> matchRows]})]

\* loadEloDeltas up to its first await
loadEloDeltas(p) ==
    IF p.targetPlayerId = 0 \/ p.eloLoading THEN p
    ELSE PageRequest([p EXCEPT !.eloLoading = TRUE],
                     "loadEloDeltas", "listMatches", 0, p.matchMode, 0, <<>>)

\* the map loadEloDeltas stores once both of its requests have answered
EloDeltasShown(allMatches, targetId) ==
    LET totals == buildMatchGameTotals(allMatches, listGamesOf(allMatches))
        played == SelectSeq(allMatches,
                            LAMBDA m : /\ isParticipant(m, targetId)
                                       /\ m.id \in DOMAIN totals
                                       /\ totals[m.id].totalGames > 0)
    IN  IF Len(played) < 3 THEN EmptyMap
        ELSE calculateEloDeltasForPlayer(allMatches, totals, targetId, <<>>)

\* loadEloDeltas from a response on
loadEloDeltasResumes(p, request, ok) ==
    IF ~ok THEN [p EXCEPT !.eloDeltasByMatchId = EmptyMap, !.eloLoading = FALSE]
    ELSE IF request.at = "listMatches"
    THEN PageRequest(p, "loadEloDeltas", "listGames", 0, request.matchType, 0,
                     listMatchesWith(0, request.matchType, 0))
    ELSE [p EXCEPT !.eloDeltasByMatchId = EloDeltasShown(request.rows, p.targetPlayerId),
                   !.eloLoading = FALSE]

\* loadMatches up to its first await
loadMatches(p) ==
    IF p.targetPlayerId = 0 THEN p
    ELSE PageRequest([p EXCEPT !.loading = TRUE, !.error = FALSE],
                     "loadMatches", "listMatches", p.targetPlayerId, p.matchMode,
                     p.dateFrom, <<>>)

\* the finally block of loadMatches
loadMatchesFinally(p) == loadEloDeltas([p EXCEPT !.loading = FALSE])

\* loadMatches from a response on
loadMatchesResumes(p, request, ok) ==
    IF request.at = "listMatches"
    THEN IF ~ok
         THEN loadMatchesFinally([p EXCEPT !.error = TRUE, !.matches = <<>>,
                                           !.matchTotalsById = EmptyMap])
         ELSE LET data == listMatchesWith(request.playerId, request.matchType,
                                          request.dateFrom)
                  shown == [p EXCEPT !.matches = data]
              IN  IF data # <<>>
                  THEN PageRequest(shown, "loadMatches", "listGames", request.playerId,
                                   request.matchType, request.dateFrom, data)
                  ELSE loadMatchesFinally([shown EXCEPT !.matchTotalsById = EmptyMap])
    ELSE IF ~ok
         THEN loadMatchesFinally([p EXCEPT !.error = TRUE, !.matchTotalsById = EmptyMap])
         ELSE loadMatchesFinally(
                 [p EXCEPT !.matchTotalsById =
                              buildMatchGameTotals(p.matches, listGamesOf(request.rows))])

\* loadData of the profile page up to its first await
loadData(p) ==
    IF p.targetPlayerId = 0 THEN p
    ELSE PageRequest([p EXCEPT !.loading = TRUE, !.error = FALSE, !.profile = 0],
                     "loadData", "getProfileById", p.targetPlayerId, p.matchMode, 0, <<>>)

\* loadData from a response on
loadDataResumes(p, request, ok) ==
    IF ~ok THEN [p EXCEPT !.error = TRUE, !.loading = FALSE]
    ELSE IF request.at = "getProfileById"
    THEN PageRequest([p EXCEPT !.profile = request.playerId],
                     "loadData", "listProfiles", request.playerId, p.matchMode, 0, <<>>)
    ELSE IF request.at = "listProfiles"
    THEN PageRequest([p EXCEPT !.profiles = TRUE],
                     "loadData", "listMatches", request.playerId, p.matchMode, 0, <<>>)
    ELSE IF request.at = "listMatches"
    THEN LET data == listMatchesWith(0, request.matchType, 0)
         IN  PageRequest([p EXCEPT !.matches = data],
                         "loadData", "listGames", request.playerId, request.matchType, 0, data)
    ELSE [p EXCEPT !.games = listGamesOf(request.rows), !.loading = FALSE]

\* the load a page starts when it is mounted and when what it shows changes
PageLoad(p) == IF p.view = "history" THEN loadMatches(p) ELSE loadData(p)

\* a page when its setup has run, before onMounted
PageCreated(view, player, matchMode) ==
    [mounted |-> TRUE, view |-> view, targetPlayerId |-> player, matchMode |-> matchMode,
     dateFrom |-> 0, profile |-> 0, profiles |-> FALSE, matches |-> <<>>, games |-> <<>>,
     matchTotalsById |-> EmptyMap, error |-> FALSE, loading |-> FALSE, eloLoading |-> FALSE,
     eloDeltasByMatchId |-> EmptyMap, requests |-> EmptyBag, started |-> 0]

\* a mounted page: onMounted has started the first load
InitPages ==
    /\ EngineIdle
    /\ form = Idle
    /\ auth = Idle
    /\ \E view \in {"history", "profile"}, player \in RoutePlayers, matchMode \in MatchModes :
         page = PageLoad(PageCreated(view, player, matchMode))

\* the user may start another load
MayStartLoad == page.mounted /\ page.started < MaxPageLoads

\* the match-mode switch: the watcher of matchMode starts a load
SelectMatchMode ==
    /\ MayStartLoad
    /\ \E matchMode \in MatchModes \ {page.matchMode} :
         page' = PageLoad([page EXCEPT !.matchMode = matchMode, !.started = @ + 1])
    /\ UNCHANGED <<engineVars, form, auth>>

\* the date filter of the match history: the watcher of the filters starts a load
ChangeDateFilter ==
    /\ MayStartLoad
    /\ page.view = "history"
    /\ \E dateFrom \in DateFilters \ {page.dateFrom} :
         page' = loadMatches([page EXCEPT !.dateFrom = dateFrom, !.started = @ + 1])
    /\ UNCHANGED <<engineVars, form, auth>>

\* navigation to another player: the watcher of route.params.id starts a load
RouteChanges ==
    /\ MayStartLoad
    /\ \E player \in RoutePlayers \ {page.targetPlayerId} :
         page' = PageLoad([page EXCEPT !.targetPlayerId = player, !.started = @ + 1])
    /\ UNCHANGED <<engineVars, form, auth>>

\* a request answers and the load that awaits it goes on
PageResponse ==
    /\ page.mounted
    /\ \E request \in BagToSet(page.requests), ok \in BOOLEAN :
         LET received == [page EXCEPT !.requests = @ (-) SetToBag({request})]
         IN  page' = IF request.fn = "loadMatches" THEN loadMatchesResumes(received, request, ok)
                     ELSE IF request.fn = "loadEloDeltas"
                     THEN loadEloDeltasResumes(received, request, ok)
                     ELSE loadDataResumes(received, request, ok)
    /\ UNCHANGED <<engineVars, form, auth>>

NextPages ==
    \/ SelectMatchMode
    \/ ChangeDateFilter
    \/ RouteChanges
    \/ PageResponse

SpecPages == InitPages /\ [][NextPages]_vars

\* every request has answered and the last answers were not errors
PageSettled == page.mounted /\ page.requests = EmptyBag /\ ~page.error

-----------------------------------------------------------------------------
(* C29: on the match-history page, once all in-flight requests have          *)
(* completed, the displayed Elo delta map is the one computed for the        *)
(* currently selected target player and match mode: a change of target, mode *)
(* or filter that happens while an Elo-delta load is in flight is not lost.  *)

\* the map for a target and a mode, or the empty map an Elo request that
\* failed leaves
EloDeltasFor(player, matchMode) ==
    { EloDeltasShown(listMatchesWith(0, matchMode, 0), player), EmptyMap }

C29_EloDeltasFollowSelection ==
    (PageSettled /\ page.view = "history")
        => page.eloDeltasByMatchId \in EloDeltasFor(page.targetPlayerId, page.matchMode)

\* what the code does guarantee: the map shown is one computed for the
\* current target and for some mode
C29_EloDeltasOfCurrentTarget ==
    (PageSettled /\ page.view = "history")
        => \E matchMode \in MatchModes :
              page.eloDeltasByMatchId \in EloDeltasFor(page.targetPlayerId, matchMode)

\* the target changed while an Elo-delta load was in flight, and the map shown
\* afterwards is the new target's
C29_TargetChangeKept ==
    /\ PageSettled
    /\ page.view = "history"
    /\ page.started = 1
    /\ page.eloDeltasByMatchId # EmptyMap
    /\ page.eloDeltasByMatchId \in EloDeltasFor(page.targetPlayerId, page.matchMode)

-----------------------------------------------------------------------------
(* C30: on the player-profile and match-history pages, when loads overlap    *)
(* because the route player, match mode or a filter changes before an        *)
(* earlier load has returned, the data shown after all loads settle          *)
(* (profile, matches, games) is that of the most recently requested          *)
(* parameters, whatever order the responses arrive in, and never mixes rows  *)
(* from different requests.                                                  *)

\* the match history shows the rows of the selected player, mode and filter
HistoryShowsSelection ==
    LET rowsWanted == listMatchesWith(page.targetPlayerId, page.matchMode, page.dateFrom)
    IN  /\ page.matches = rowsWanted
        /\ page.matchTotalsById = buildMatchGameTotals(rowsWanted, listGamesOf(rowsWanted))

\* the profile page shows the route player's profile and the mode's rows
ProfileShowsSelection ==
    LET rowsWanted == listMatchesWith(0, page.matchMode, 0)
    IN  /\ page.profile = page.targetPlayerId
        /\ page.matches = rowsWanted
        /\ page.games = listGamesOf(rowsWanted)

C30_SettledPageShowsLatestRequest ==
    PageSettled =>
        IF page.view = "history" THEN HistoryShowsSelection ELSE ProfileShowsSelection

\* what the code does guarantee: a page settled after a single load shows it
C30_SingleLoadIsShown ==
    (PageSettled /\ page.started = 0) =>
        IF page.view = "history" THEN HistoryShowsSelection ELSE ProfileShowsSelection

\* the profile page alone
C30_ProfilePageShowsLatestRequest ==
    (PageSettled /\ page.view = "profile") => ProfileShowsSelection

====
